---- MODULE Spec2Model ----
(***************************************************************************)
(* Model of the go-yt-sum job pipeline: the job registry                   *)
(* (job.ActiveJobsManager), the job record (job.SummaryJob), the video     *)
(* metadata store (db.DB), the stage adapters (adapters.DownloadVideo,     *)
(* adapters.TranscribeVideo, adapters.SummarizeVideo) and the pipeline     *)
(* workers (pipeline.SummarizerPipeline).                                  *)
(*                                                                         *)
(* Job records are heap objects: CreateJob allocates a new SummaryJob for  *)
(* every fresh or revived video, so job objects are named by JobIds and    *)
(* the registry maps a video id to the object it currently holds.          *)
(***************************************************************************)
EXTENDS Integers, Sequences, FiniteSets, TLC

\* ------------------------------------------------------------------ bounds
\* Number of POST /summarize/{id} requests accepted for video "A" (two, so that
\* a failed job can be retried) and for video "B".
PostsA == 2
PostsB == 1
\* Capacity of videoIdIn (make(chan string, 1024)), scaled down.
IntakeCap == 1
\* Capacity of the stage channels (make(chan *job.SummaryJob, 1024)), scaled down.
ChanCap == 2
\* Capacity of errCh (make(chan PipelineError, 10)), scaled down.
ErrCap == 1
\* Number of audio chunks and of summary chunks the long video ("A") yields.
MaxChunks == 2
\* Number of connections to GET /summarize/jobs/subscribe.
MaxClients == 1
\* Number of connections to GET /chat/{id}/subscribe.
MaxChatClients == 2
\* Number of POST /chat/{id}/send requests.
MaxSends == 2
\* Number of tokens the language model streams for one response.
MaxTokens == 1

Videos == {"A", "B"}
JobIds == 1..(PostsA + PostsB)
MaxPosts(v) == IF v = "A" THEN PostsA ELSE PostsB
NoJob == 0
ClientIds == 1..MaxClients
ChatClientIds == 1..MaxChatClients
SendIds == 1..MaxSends
\* The send requests of the runs in which the language-model service is
\* down: one more, each of them short.
DownSends == 1..(MaxSends + 1)
\* Chat objects: addListenerLocked allocates one whenever a client connects and
\* mgr.Chats has none for the video, so there are at most as many as clients.
RoomIds == 1..MaxChatClients
NoRoom == 0
\* The video the chat requests are about.
ChatVideo == "A"
\* req.Message of a send request.
Messages == {<<>>, <<"hi">>}

\* What an earlier process (or an earlier run of this one) left on disk and
\* in db.json for a video, before this process started.
PriorRuns == {"none", "audio", "media", "captions"}

VARIABLES
    videoIdIn,      \* pipe.videoIdIn
    pendingCh,      \* pipe.pendingCh
    downloadedCh,   \* pipe.downloadedCh
    transcribedCh,  \* pipe.transcribedCh
    summarizedCh,   \* pipe.summarizedCh
    errCh,          \* pipe.errCh
    Jobs,           \* manager.Jobs : video id -> job object (NoJob when absent)
    job,            \* the SummaryJob objects
    nextJob,        \* next job object CreateJob allocates
    run,            \* per job object: the stage execution working on it
    intakeFwd,      \* processNewIds: the job it is about to send on pendingCh
    finJob,         \* displayOutput: the job whose UpdateJobSuccess is pending
    heErr,          \* handleErrors: the error whose SetJobFailed is pending
    disk,           \* per video: which artifacts exist under ./content
    db,             \* db.Data
    dbFile,         \* content of db.json
    sent,           \* per job object: the BroadcastJobData calls made for it
    posts,          \* per video: number of POST requests accepted so far
    prior,          \* per video: what was on disk when the process started
    lastCode,       \* status code of the latest answer to POST /summarize/{id}
    usedDownloader, \* per job object: yt-dlp was run for it
    usedTranscriber, \* per job object: the speech-to-text service was called for it
    Clients,        \* manager.Clients : the registered job-stream clients
    clientPc,       \* per job-stream client: where its createNewSSEClient handler is
    sink,           \* per job-stream client: the events written to its Connection
    Chats,          \* mgr.Chats[ChatVideo] : the Chat object in the map (NoRoom when absent)
    chat,           \* the Chat objects
    nextRoom,       \* next Chat object addListenerLocked allocates
    ChatClients,    \* mgr.Clients : the registered chat clients
    chatClient,     \* per chat client: where its createChatSSEClient handler is
    chatSink,       \* per chat client: what has been written to its Connection
    send,           \* per send request: its handler and, once accepted, its worker
    transcript,     \* ./content/chats/<ChatVideo>.json
    vtt,            \* one call of formatVTT: its subtitle items and its locals
    hms,            \* one call of fmtHMS: its argument and its result
    yt,             \* one use of the URL utilities: the URL and the results
    thread,         \* per goroutine: the operation it runs and how far it has got
    fs,             \* per artifact file: its content, its writer and what a reader got
    dbCall          \* per caller of db.Create / db.SetJobFailed: the call and its place

chans == <<videoIdIn, pendingCh, downloadedCh, transcribedCh, summarizedCh, errCh>>
stageChans == <<pendingCh, downloadedCh, transcribedCh, summarizedCh>>
registry == <<Jobs, nextJob>>
jobState == <<job, sent, db, dbFile, sink>>
workers == <<intakeFwd, finJob, heErr>>
env == <<posts, prior, lastCode>>
hist == <<usedDownloader, usedTranscriber>>
jobHub == <<Clients, clientPc>>
chatHub == <<Chats, chat, nextRoom, ChatClients, chatClient, chatSink, send, transcript>>
hubs == <<jobHub, chatHub>>
utils == <<vtt, hms, yt>>
files == <<fs, dbCall>>
others == <<utils, thread, files>>
pipeVars == <<chans, registry, job, sent, db, dbFile, run, workers, disk, env, hist>>
vars == <<videoIdIn, pendingCh, downloadedCh, transcribedCh, summarizedCh, errCh,
          Jobs, job, nextJob, run, intakeFwd, finJob, heErr, disk, db, dbFile,
          sent, posts, prior, lastCode, usedDownloader, usedTranscriber,
          Clients, clientPc, sink,
          Chats, chat, nextRoom, ChatClients, chatClient, chatSink, send, transcript,
          vtt, hms, yt, thread, fs, dbCall>>

\* ----------------------------------------------------------------- helpers
InSeq(q, x) == \E i \in 1..Len(q) : q[i] = x

Statuses == {"pending", "checking_for_captions", "downloaded_captions",
             "downloading_audio", "extracting_audio", "chunking", "transcribing",
             "summarizing", "finished", "failed"}

\* A SummaryJob as CreateJob builds it (all other fields are Go zero values).
NewSummaryJob(v) ==
    [VideoID |-> v, Status |-> "pending", Error |-> "",
     VideoMeta |-> FALSE, HadCaptions |-> FALSE,
     TranscriptionChunks |-> 0, ChunksTranscribed |-> 0,
     SummaryChunks |-> 0, ChunksSummarized |-> 0]

\* A job object CreateJob has not allocated yet.
Unallocated ==
    [VideoID |-> "", Status |-> "", Error |-> "",
     VideoMeta |-> FALSE, HadCaptions |-> FALSE,
     TranscriptionChunks |-> 0, ChunksTranscribed |-> 0,
     SummaryChunks |-> 0, ChunksSummarized |-> 0]

NoEntry == [exists |-> FALSE, JobFailed |-> FALSE, LastError |-> ""]

NoRun == [stage |-> "none", pc |-> "idle", n |-> 0, i |-> 0, err |-> "", subs |-> FALSE]

NoErr == [Job |-> NoJob, Stage |-> "", Err |-> ""]

\* net/http status codes the handlers answer with; NoCode: nothing answered yet.
NoCode == 0
StatusAccepted == 202
StatusConflict == 409
StatusTooManyRequests == 429

\* db.Create: the entry is the job's VideoMeta, whose JobFailed and LastError
\* are the zero values.
DBCreate(d, v) == [d EXCEPT ![v] = [exists |-> TRUE, JobFailed |-> FALSE, LastError |-> ""]]

\* db.SetJobFailed: only an existing entry is changed.
SetJobFailed(d, v, failed, msg) ==
    IF d[v].exists
    THEN [d EXCEPT ![v] = [exists |-> TRUE, JobFailed |-> failed, LastError |-> msg]]
    ELSE d

\* db.UpdateJobSuccess
UpdateJobSuccess(d, v) == SetJobFailed(d, v, FALSE, "")

\* The update handler CreateUpdateHandler installs as OnUpdate: broadcast, then
\* store the metadata if the store has no entry for the video.
OnUpdateDB(d, r) ==
    IF ~d[r.VideoID].exists /\ r.VideoMeta THEN DBCreate(d, r.VideoID) ELSE d

\* An event on a job-stream connection.  "new" and "update" carry one job (the
\* object it was marshalled from and its fields), "init" the registry's jobs.
JobEvent(j, r, eventType) == [type |-> eventType, job |-> j, data |-> r, jobs |-> {}]

\* BroadcastJobData: marshal the job and write the event to every client in
\* manager.Clients (the map is read without ClientsLock).
BroadcastJobData(j, r, eventType) ==
    [c \in ClientIds |->
        IF c \in Clients THEN Append(sink[c], JobEvent(j, r, eventType)) ELSE sink[c]]

\* UpdateJob calling OnUpdate before the mutator: the event carries the job as
\* it was before the mutation.
UpdateJobStale(j, r) ==
    /\ job' = [job EXCEPT ![j] = r]
    /\ sent' = [sent EXCEPT ![j] = Append(@, [type |-> "update", data |-> job[j]])]
    /\ sink' = BroadcastJobData(j, job[j], "update")
    /\ db' = OnUpdateDB(db, r)
    /\ dbFile' = OnUpdateDB(db, r)

\* SummaryJob.UpdateJob / UpdateStatus: under the job's lock, apply the mutator
\* (r is the record it yields) and call OnUpdate.
UpdateJob(j, r) ==
    /\ job' = [job EXCEPT ![j] = r]
    /\ sent' = [sent EXCEPT ![j] = Append(@, [type |-> "update", data |-> r])]
    /\ sink' = BroadcastJobData(j, r, "update")
    /\ db' = OnUpdateDB(db, r)
    /\ dbFile' = OnUpdateDB(db, r)

\* -------------------------------------------------------------- chat values
\* A text (a message, a response) is the list of its pieces; the empty string
\* is the empty list.  InProgressResponse grows by one piece per token.
EmptyText == <<>>
Token == "tok"
\* fmt.Sprintf("Error: %s", err.Error())
ErrorText == <<"Error: cause">>

\* A Chat as addListenerLocked builds it (before NumListeners++).  ver counts
\* the mutations of the object's fields IsBusy, InProgressRequest and
\* InProgressResponse; the program has no such field.
NewChat ==
    [VideoID |-> ChatVideo, IsBusy |-> FALSE, InProgressRequest |-> EmptyText,
     InProgressResponse |-> EmptyText, NumListeners |-> 0, ver |-> 0]

\* A Chat object addListenerLocked has not allocated yet.
NoChat ==
    [VideoID |-> "", IsBusy |-> FALSE, InProgressRequest |-> EmptyText,
     InProgressResponse |-> EmptyText, NumListeners |-> 0, ver |-> 0]

\* chatSnapshot := *chat, of Chat object r.
SnapshotOf(r) == [room |-> r, data |-> chat[r]]

NoSnap == [room |-> NoRoom, data |-> NoChat]

\* A send request: pc is the place of its handler or worker, message the
\* request's text, room the Chat object SendMessage found (the worker's captured
\* pointer), code the handler's answer, snap the snapshot a broadcastUpdate in
\* progress holds, ret the place to go on at after that broadcastUpdate,
\* tokens the number of tokens received, accepted the object's ver right after
\* the acceptance, err the error SendMessage returned, prior the history
\* SendChatMessage loaded (its local variable, until the call returns),
\* finalResponse and history the locals of the worker's deferred function and
\* of saveChatHistory.
NoSend ==
    [pc |-> "new", message |-> EmptyText, room |-> NoRoom, code |-> NoCode,
     snap |-> NoSnap, ret |-> "", tokens |-> 0, accepted |-> 0, err |-> "",
     prior |-> <<>>, finalResponse |-> EmptyText, history |-> <<>>]

\* The two entries saveChatHistory appends.
Exchange(userMessage, assistantResponse) ==
    <<[Role |-> "user", Content |-> userMessage],
      [Role |-> "assistant", Content |-> assistantResponse]>>

\* An event on a chat connection; by: the send request whose handler or worker
\* wrote it (0 for init).
ChatEvent(eventType, snap, s) == [type |-> eventType, snap |-> snap, by |-> s]

NoEvent == [type |-> "", snap |-> NoSnap, by |-> 0]

\* What is kept of the events written to a chat connection: the last event,
\* the snapshot of the last update event, and the send requests whose first
\* update (the one SendMessage broadcasts on acceptance) was written to it.
NoSink == [last |-> NoEvent, update |-> NoSnap, seen |-> {}]

\* fmt.Fprint(client.Connection, eventString)
Written(k, ev, first) ==
    [last |-> ev,
     update |-> IF ev.type = "update" THEN ev.snap ELSE k.update,
     seen |-> IF first THEN k.seen \cup {ev.by} ELSE k.seen]

\* ------------------------------------------------------ utility functions
\* A string is the list of its characters (runes).
Min(a, b) == IF a < b THEN a ELSE b

Largest(S) == CHOOSE x \in S : \A y \in S : y <= x

StartsWith(str, prefix) ==
    Len(prefix) <= Len(str) /\ SubSeq(str, 1, Len(prefix)) = prefix

Drop(str, n) == SubSeq(str, n + 1, Len(str))

\* ---- formatVTT (captions to segments)
MaxRunes == 2
MaxItems == 3
Runes == {"a", "b"}
Texts == UNION {[1..n -> Runes] : n \in 0..MaxRunes}

\* A subtitle item as formatVTT sees it: int64(start), int64(end), seg.String().
Items == [Start : {0}, End : {0, 1}, Text : Texts]

\* s.Items of the files formatVTT is given.
VTTInputs == UNION {[1..n -> Items] : n \in 0..MaxItems}

NoVTT == [pc |-> "idle", Items |-> <<>>, i |-> 0, segments |-> <<>>]

\* for k := max; k > 0; k-- : the first k (the largest) with a[len-k:] = b[:k].
FindNumOverlappingRunes(a, b) ==
    LET max == Min(Len(a), Len(b))
        ks == {k \in 1..max : SubSeq(a, Len(a) - k + 1, Len(a)) = SubSeq(b, 1, k)}
    IN IF ks = {} THEN 0 ELSE Largest(ks)

\* The de-duplication of formatVTT's loop body: segments before the append.
Deduplicated(segments, txt) ==
    IF Len(segments) > 0
    THEN LET prevIdx == Len(segments)
             r == segments[prevIdx].Text
             k == FindNumOverlappingRunes(r, txt)
         IN IF k > Len(r)
            THEN SubSeq(segments, 1, prevIdx - 1)
            ELSE IF k > 0
                 THEN [segments EXCEPT ![prevIdx].Text = SubSeq(r, 1, Len(r) - k)]
                 ELSE segments
    ELSE segments

\* One pass of the loop over s.Items: skip an item without text or with
\* int64(start) = int64(end); otherwise de-duplicate and append.
FormatVTTItem ==
    /\ vtt.pc = "loop" /\ vtt.i <= Len(vtt.Items)
    /\ LET seg == vtt.Items[vtt.i] IN
         vtt' = [vtt EXCEPT
                    !.i = @ + 1,
                    !.segments = IF seg.Text = <<>> \/ seg.Start = seg.End
                                 THEN @
                                 ELSE Append(Deduplicated(@, seg.Text), seg)]
    /\ UNCHANGED <<pipeVars, sink, hubs, hms, yt, thread, files>>

\* After the loop: encode the segments into the transcription file.
FormatVTTEncode ==
    /\ vtt.pc = "loop" /\ vtt.i > Len(vtt.Items)
    /\ vtt' = [vtt EXCEPT !.pc = "done"]
    /\ UNCHANGED <<pipeVars, sink, hubs, hms, yt, thread, files>>

\* ---- fmtHMS
MaxSecs == 3700
\* time.Hour, in seconds
Hour == 3600

NoHMS == [pc |-> "idle", timeSecs |-> 0, out |-> <<>>]

\* The numbers fmtHMS prints, each with %02d, separated by colons.
FmtHMSFields(timeSecs) ==
    IF timeSecs > Hour
    THEN <<timeSecs \div 3600, (timeSecs \div 60) % 60, timeSecs % 60>>
    ELSE <<(timeSecs \div 60) % 60, timeSecs % 60>>

FmtHMS ==
    /\ hms.pc = "call"
    /\ hms' = [hms EXCEPT !.pc = "done", !.out = FmtHMSFields(hms.timeSecs)]
    /\ UNCHANGED <<pipeVars, sink, hubs, vtt, yt, thread, files>>

\* ---- YouTube URL utilities (frontend)
\* [A-Za-z0-9_-]
IdChars ==
    {"A", "B", "C", "D", "E", "F", "G", "H", "I", "J", "K", "L", "M",
     "N", "O", "P", "Q", "R", "S", "T", "U", "V", "W", "X", "Y", "Z",
     "a", "b", "c", "d", "e", "f", "g", "h", "i", "j", "k", "l", "m",
     "n", "o", "p", "q", "r", "s", "t", "u", "v", "w", "x", "y", "z",
     "0", "1", "2", "3", "4", "5", "6", "7", "8", "9", "_", "-"}

Whitespace == {" "}

\* String.prototype.trim
Trim(str) ==
    LET idx == {i \in 1..Len(str) : str[i] \notin Whitespace}
    IN IF idx = {} THEN <<>>
       ELSE SubSeq(str, CHOOSE i \in idx : \A j \in idx : i <= j, Largest(idx))

\* The result of a match or of extractVideoId: no id (null), or the id.
NoId == [found |-> FALSE, id |-> <<>>]
FoundId(v) == [found |-> TRUE, id |-> v]

\* ([A-Za-z0-9_-]{11}) at the start of str
CaptureId(str) ==
    IF Len(str) >= 11 /\ \A i \in 1..11 : str[i] \in IdChars
    THEN FoundId(SubSeq(str, 1, 11))
    ELSE NoId

\* VIDEO_ID_REGEX = /^[A-Za-z0-9_-]{11}$/, after the falsy test
IsValidVideoId(videoId) ==
    /\ videoId # <<>>
    /\ Len(videoId) = 11 /\ \A i \in 1..11 : videoId[i] \in IdChars

\* YOUTUBE_URL_PATTERNS, in order.  Every pattern is ^https?:// then, when www
\* is set, an optional "www.", then host and path, then, when query is set,
\* .*[&?]v= , then the captured id.
YOUTUBE_URL_PATTERNS ==
    <<[www |-> TRUE,  host |-> <<"y", "o", "u", "t", "u", "b", "e", ".", "c", "o", "m">>, path |-> <<"/", "w", "a", "t", "c", "h", "?", "v", "=">>, query |-> FALSE],
      [www |-> TRUE,  host |-> <<"y", "o", "u", "t", "u", "b", "e", ".", "c", "o", "m">>, path |-> <<"/", "w", "a", "t", "c", "h", "?">>, query |-> TRUE],
      [www |-> FALSE, host |-> <<"y", "o", "u", "t", "u", ".", "b", "e">>, path |-> <<"/">>, query |-> FALSE],
      [www |-> FALSE, host |-> <<"m", ".", "y", "o", "u", "t", "u", "b", "e", ".", "c", "o", "m">>, path |-> <<"/", "w", "a", "t", "c", "h", "?", "v", "=">>, query |-> FALSE],
      [www |-> FALSE, host |-> <<"m", ".", "y", "o", "u", "t", "u", "b", "e", ".", "c", "o", "m">>, path |-> <<"/", "w", "a", "t", "c", "h", "?">>, query |-> TRUE],
      [www |-> TRUE,  host |-> <<"y", "o", "u", "t", "u", "b", "e", ".", "c", "o", "m">>, path |-> <<"/", "e", "m", "b", "e", "d", "/">>, query |-> FALSE],
      [www |-> TRUE,  host |-> <<"y", "o", "u", "t", "u", "b", "e", ".", "c", "o", "m">>, path |-> <<"/", "v", "/">>, query |-> FALSE],
      [www |-> TRUE,  host |-> <<"y", "o", "u", "t", "u", "b", "e", ".", "c", "o", "m">>, path |-> <<"/", "s", "h", "o", "r", "t", "s", "/">>, query |-> FALSE],
      [www |-> FALSE, host |-> <<"y", "o", "u", "t", "u", "b", "e", ".", "c", "o", "m">>, path |-> <<"/", "s", "h", "o", "r", "t", "s", "/">>, query |-> FALSE]>>

\* What is left of str after ^https?:// (the set is empty when it does not match).
AfterScheme(str) ==
    IF StartsWith(str, <<"h", "t", "t", "p", "s", ":", "/", "/">>) THEN {Drop(str, 8)}
    ELSE IF StartsWith(str, <<"h", "t", "t", "p", ":", "/", "/">>) THEN {Drop(str, 7)}
    ELSE {}

\* .*[&?]v=([A-Za-z0-9_-]{11}) on str: .* is greedy, so the last place that
\* matches is taken.
CaptureQueryId(str) ==
    LET at == {n \in 0..Len(str) :
                  LET rest == Drop(str, n) IN
                  /\ Len(rest) >= 3 /\ rest[1] \in {"&", "?"}
                  /\ rest[2] = "v" /\ rest[3] = "="
                  /\ CaptureId(Drop(rest, 3)).found}
    IN IF at = {} THEN NoId ELSE CaptureId(Drop(str, Largest(at) + 3))

\* cleanUrl.match(pattern): match[1], or no id when there is no match.
MatchPattern(pat, str) ==
    LET hostPath == pat.host \o pat.path
        tails == AfterScheme(str)
        withWww == {Drop(r, 4) : r \in {x \in tails : pat.www /\ StartsWith(x, <<"w", "w", "w", ".">>)}}
        rests == {Drop(r, Len(hostPath)) :
                     r \in {x \in withWww \cup tails : StartsWith(x, hostPath)}}
        ids == {IF pat.query THEN CaptureQueryId(r) ELSE CaptureId(r) : r \in rests}
        found == {v \in ids : v.found}
    IN IF found = {} THEN NoId ELSE CHOOSE v \in found : TRUE

\* extractVideoId: null for an empty url; otherwise the id of the first
\* pattern that matches the trimmed url with a valid id.
ExtractVideoId(url) ==
    IF url = <<>> THEN NoId
    ELSE LET cleanUrl == Trim(url)
             hits == {n \in 1..Len(YOUTUBE_URL_PATTERNS) :
                         LET m == MatchPattern(YOUTUBE_URL_PATTERNS[n], cleanUrl)
                         IN m.found /\ IsValidVideoId(m.id)}
         IN IF hits = {} THEN NoId
            ELSE MatchPattern(YOUTUBE_URL_PATTERNS[CHOOSE n \in hits : \A k \in hits : n <= k],
                              cleanUrl)

IsValidYouTubeURL(url) == ExtractVideoId(url) # NoId

WatchURL(videoId) == <<"h", "t", "t", "p", "s", ":", "/", "/", "w", "w", "w", ".", "y", "o", "u", "t", "u", "b", "e", ".", "c", "o", "m", "/", "w", "a", "t", "c", "h", "?", "v", "=">> \o videoId

\* A normalizeYouTubeURL that gives back the trimmed url when it finds no id.
NormalizeYouTubeURLTrimmed(url) ==
    LET videoId == ExtractVideoId(url)
    IN IF ~videoId.found \/ videoId.id = <<>> THEN Trim(url) ELSE WatchURL(videoId.id)

NormalizeYouTubeURL(url) ==
    LET videoId == ExtractVideoId(url)
    IN IF ~videoId.found \/ videoId.id = <<>> THEN url ELSE WatchURL(videoId.id)

\* The URLs the utilities are given: optional blank, scheme, host, path, an
\* id or something like one, and a tail.
YtLeads == {<<>>, <<" ">>}
YtSchemes == {<<"h", "t", "t", "p", "s", ":", "/", "/">>, <<"h", "t", "t", "p", ":", "/", "/">>, <<"f", "t", "p", ":", "/", "/">>}
YtHosts == {<<"w", "w", "w", ".", "y", "o", "u", "t", "u", "b", "e", ".", "c", "o", "m">>, <<"y", "o", "u", "t", "u", "b", "e", ".", "c", "o", "m">>, <<"m", ".", "y", "o", "u", "t", "u", "b", "e", ".", "c", "o", "m">>, <<"y", "o", "u", "t", "u", ".", "b", "e">>, <<"v", "i", "m", "e", "o", ".", "c", "o", "m">>}
YtPaths == {<<"/", "w", "a", "t", "c", "h", "?", "v", "=">>, <<"/", "w", "a", "t", "c", "h", "?", "a", "=", "1", "&", "v", "=">>, <<"/", "e", "m", "b", "e", "d", "/">>, <<"/", "v", "/">>, <<"/", "s", "h", "o", "r", "t", "s", "/">>, <<"/">>}
YtIds == {<<"d", "Q", "w", "4", "w", "9", "W", "g", "X", "c", "Q">>, <<"d", "Q", "w", "4", "w", "9", "W", "g", "X", "c">>, <<"d", "Q", "w", "4", "w", "9", "W", "g", "X", "c", "@">>, <<"d", "Q", "w", "4", "w", "9", "W", "g", "X", "c", "Q", "Z">>, <<>>}
YtTails == {<<>>, <<"&", "v", "=", "B", "K", "m", "4", "5", "A", "z", "0", "2", "Y", "E">>, <<"?", "t", "=", "4", "2">>, <<" ">>}
YtURLs ==
    {<<>>} \cup
    {l \o sc \o h \o pa \o v \o t :
        l \in YtLeads, sc \in YtSchemes, h \in YtHosts, pa \in YtPaths, v \in YtIds,
        t \in YtTails}

\* MaxRounds: how often the result of normalizeYouTubeURL is normalized again.
MaxRounds == 2

NoYT == [pc |-> "idle", input |-> <<>>, url |-> <<>>, id |-> NoId, valid |-> FALSE,
         rounds |-> 0]

\* extractVideoId(url) and isValidYouTubeURL(url)
YtCheck ==
    /\ yt.pc = "new"
    /\ yt' = [yt EXCEPT !.pc = "checked", !.id = ExtractVideoId(yt.url),
                        !.valid = IsValidYouTubeURL(yt.url)]
    /\ UNCHANGED <<pipeVars, sink, hubs, vtt, hms, thread, files>>

\* url = normalizeYouTubeURL(url)
YtNormalize ==
    /\ yt.pc \in {"checked", "normalized"} /\ yt.rounds < MaxRounds
    /\ yt' = [yt EXCEPT !.pc = "normalized", !.url = NormalizeYouTubeURL(yt.url),
                        !.rounds = @ + 1]
    /\ UNCHANGED <<pipeVars, sink, hubs, vtt, hms, thread, files>>

\* -------------------------------------------------------- lock discipline
\* What a goroutine does to the locks, the subscriber connections and the
\* files while it runs one operation, in program order.  An event is a lock
\* operation on a named lock, a write to a subscriber connection, or a write
\* of a file.
MaxThreads == 2
ThreadIds == 1..MaxThreads

Lock(l) == <<[kind |-> "Lock", on |-> l]>>
Unlock(l) == <<[kind |-> "Unlock", on |-> l]>>
RLock(l) == <<[kind |-> "RLock", on |-> l]>>
RUnlock(l) == <<[kind |-> "RUnlock", on |-> l]>>
WriteSink == <<[kind |-> "WriteSink", on |-> ""]>>
WriteFile == <<[kind |-> "WriteFile", on |-> ""]>>

\* manager.Lock, manager.ClientsLock (job registry), mgr.mu (chat manager)
RegistryLocks == {"manager.Lock", "manager.ClientsLock", "mgr.mu"}

\* db.SaveToFile
SaveToFileLocks == RLock("db.Lock") \o WriteFile \o RUnlock("db.Lock")

\* db.Exists
ExistsLocks == RLock("db.Lock") \o RUnlock("db.Lock")

\* db.Create
CreateLocks == Lock("db.Lock") \o Unlock("db.Lock") \o SaveToFileLocks

\* db.SetJobFailed, when the entry exists and when it does not
SetJobFailedLocks(exists) ==
    Lock("db.Lock") \o Unlock("db.Lock") \o (IF exists THEN SaveToFileLocks ELSE <<>>)

\* A BroadcastJobData that takes manager.ClientsLock around its loop.
BroadcastJobDataLocksGuarded ==
    Lock("manager.ClientsLock") \o WriteSink \o Unlock("manager.ClientsLock")

\* manager.BroadcastJobData: the loop over manager.Clients
BroadcastJobDataLocks == WriteSink

\* the handler CreateUpdateHandler returns (job.OnUpdate)
OnUpdateLocks(create) ==
    BroadcastJobDataLocks \o ExistsLocks \o (IF create THEN CreateLocks ELSE <<>>)

\* job.UpdateJob and job.UpdateStatus
UpdateJobLocks(create) == Lock("job.Lock") \o OnUpdateLocks(create) \o Unlock("job.Lock")

\* job.GetStatus
GetStatusLocks == RLock("job.Lock") \o RUnlock("job.Lock")

\* manager.CreateJob: the job exists and has not failed; otherwise a new job
\* is made (with the status read when a failed one exists)
CreateJobLocks(exists, new) ==
    Lock("manager.Lock")
    \o (IF exists THEN GetStatusLocks ELSE <<>>)
    \o (IF new THEN SetJobFailedLocks(exists) \o BroadcastJobDataLocks ELSE <<>>)
    \o Unlock("manager.Lock")

\* manager.CreateClient
CreateClientLocks ==
    Lock("manager.ClientsLock") \o WriteSink \o Unlock("manager.ClientsLock")

\* manager.DeleteClient
DeleteClientLocks == Lock("manager.ClientsLock") \o Unlock("manager.ClientsLock")

\* chat: broadcastUpdate, when the map holds the Chat
BroadcastUpdateLocks ==
    Lock("mgr.mu") \o Unlock("mgr.mu") \o Lock("mgr.mu") \o WriteSink \o Unlock("mgr.mu")

\* chat: broadcastComplete
BroadcastCompleteLocks == Lock("mgr.mu") \o WriteSink \o Unlock("mgr.mu")

\* chat: CreateClient
ChatCreateClientLocks == Lock("mgr.mu") \o Unlock("mgr.mu") \o WriteSink

\* chat: DeleteClient, when the map holds the client's Chat
ChatDeleteClientLocks ==
    Lock("mgr.mu") \o Lock("chat.mu") \o Unlock("chat.mu") \o Unlock("mgr.mu")

\* chat: SendMessage up to the go statement (accepted)
SendMessageLocks == Lock("mgr.mu") \o Unlock("mgr.mu") \o BroadcastUpdateLocks

\* chat: onProgress
OnProgressLocks == Lock("chat.mu") \o Unlock("chat.mu") \o BroadcastUpdateLocks

\* chat: the worker's deferred function (with a response that is not empty)
WorkerDeferLocks ==
    BroadcastCompleteLocks
    \o Lock("chat.mu") \o Unlock("chat.mu")
    \o WriteFile
    \o Lock("chat.mu") \o Unlock("chat.mu")
    \o BroadcastUpdateLocks

\* The operations a goroutine can run, by name.
Operations ==
    [UpdateJob       |-> UpdateJobLocks(FALSE),
     UpdateJobCreate |-> UpdateJobLocks(TRUE),
     CreateJobExists |-> CreateJobLocks(TRUE, FALSE),
     CreateJobRetry  |-> CreateJobLocks(TRUE, TRUE),
     CreateJobNew    |-> CreateJobLocks(FALSE, TRUE),
     SetJobFailed    |-> SetJobFailedLocks(TRUE),
     CreateClient    |-> CreateClientLocks,
     DeleteClient    |-> DeleteClientLocks,
     ChatCreateClient |-> ChatCreateClientLocks,
     ChatDeleteClient |-> ChatDeleteClientLocks,
     SendMessage     |-> SendMessageLocks,
     OnProgress      |-> OnProgressLocks,
     WorkerDefer     |-> WorkerDeferLocks]

OperationNames == DOMAIN Operations

NoThread == [op |-> "", i |-> 0]
NoThreads == [t \in ThreadIds |-> NoThread]

\* The events goroutine t has executed so far in its operation, and the one
\* it executes next.
Executed(t) ==
    IF thread[t].op = "" THEN <<>> ELSE SubSeq(Operations[thread[t].op], 1, thread[t].i)

NextEvent(t) == Operations[thread[t].op][thread[t].i + 1]

Running(t) == thread[t].op # "" /\ thread[t].i < Len(Operations[thread[t].op])

\* The locks goroutine t holds: acquired with the kind of event a, not yet
\* released with the kind r.
HeldBy(t, a, r) ==
    LET done == Executed(t) IN
    {l \in {done[i].on : i \in 1..Len(done)} :
        \E i \in 1..Len(done) :
            /\ done[i].kind = a /\ done[i].on = l
            /\ \A j \in (i + 1)..Len(done) : ~(done[j].kind = r /\ done[j].on = l)}

WriteHeld(t) == HeldBy(t, "Lock", "Unlock")
ReadHeld(t) == HeldBy(t, "RLock", "RUnlock")
Held(t) == WriteHeld(t) \cup ReadHeld(t)

\* sync.Mutex and sync.RWMutex: Lock waits for every holder, RLock for the
\* writer.
CanExecute(t, ev) ==
    CASE ev.kind = "Lock" -> \A u \in ThreadIds \ {t} : ev.on \notin Held(u)
      [] ev.kind = "RLock" -> \A u \in ThreadIds \ {t} : ev.on \notin WriteHeld(u)
      [] OTHER -> TRUE

\* A goroutine starts an operation.
Call(t, op) ==
    /\ thread[t].op = ""
    /\ thread' = [thread EXCEPT ![t] = [op |-> op, i |-> 0]]
    /\ UNCHANGED <<pipeVars, sink, hubs, utils, files>>

\* A goroutine executes the next event of its operation.
Execute(t) ==
    /\ Running(t)
    /\ CanExecute(t, NextEvent(t))
    /\ thread' = [thread EXCEPT ![t].i = @ + 1]
    /\ UNCHANGED <<pipeVars, sink, hubs, utils, files>>

\* The operation returns.
Return(t) ==
    /\ thread[t].op # "" /\ ~Running(t)
    /\ thread' = [thread EXCEPT ![t] = NoThread]
    /\ UNCHANGED <<pipeVars, sink, hubs, utils, files>>

\* ---------------------------------------------------------- artifact files
\* The files the program persists: db.json (db.SaveToFile), the merged
\* transcription (adapters.TranscribeVideo, formatVTT), the summary
\* (adapters.SummarizeVideo) and the chat history (saveChatHistory).  The
\* content of a file is the list of the pieces written to it, each piece
\* named by the number of the write it belongs to; a complete content has
\* FilePieces pieces.
Artifacts == {"db", "transcription", "summary", "chat"}
MaxWrites == 2
FilePieces == 2

Absent == [exists |-> FALSE, data |-> <<>>]
NotRead == [exists |-> FALSE, data |-> <<0>>]
ContentOf(n) == [exists |-> TRUE, data |-> [i \in 1..FilePieces |-> n]]

\* disk: the file under its name; tmp: the temporary file of a writer; pc and
\* ver: the writer's place and the number of its write; seen: what the latest
\* os.ReadFile / io.ReadAll of a reader returned.
NoFile == [disk |-> Absent, tmp |-> Absent, pc |-> "idle", ver |-> 0, seen |-> NotRead]
NoFiles == [a \in Artifacts |-> NoFile]

\* db.SaveToFile writes a temporary file and renames it.
UsesRename(a) == a = "db"

\* os.CreateTemp(dir, ".db-*.json")
CreateTemp(a) ==
    /\ UsesRename(a)
    /\ fs[a].pc = "idle" /\ fs[a].ver < MaxWrites
    /\ fs' = [fs EXCEPT ![a] = [@ EXCEPT !.pc = "temp", !.ver = @ + 1,
                                         !.tmp = [exists |-> TRUE, data |-> <<>>]]]
    /\ UNCHANGED <<pipeVars, sink, hubs, utils, thread, dbCall>>

\* enc.Encode(db), tmp.Sync(), tmp.Close(): the pieces reach the temporary
\* file one write at a time.
WriteTemp(a) ==
    /\ fs[a].pc = "temp" /\ Len(fs[a].tmp.data) < FilePieces
    /\ fs' = [fs EXCEPT ![a].tmp.data = Append(@, fs[a].ver)]
    /\ UNCHANGED <<pipeVars, sink, hubs, utils, thread, dbCall>>

\* os.Rename(tmp.Name(), db.FilePath)
Rename(a) ==
    /\ fs[a].pc = "temp" /\ Len(fs[a].tmp.data) = FilePieces
    /\ fs' = [fs EXCEPT ![a] = [@ EXCEPT !.pc = "idle", !.disk = fs[a].tmp, !.tmp = Absent]]
    /\ UNCHANGED <<pipeVars, sink, hubs, utils, thread, dbCall>>

\* os.Create(path) and the open of os.WriteFile(path, data, 0644): the file is
\* created or truncated under its own name.
CreateFile(a) ==
    /\ ~UsesRename(a)
    /\ fs[a].pc = "idle" /\ fs[a].ver < MaxWrites
    /\ fs' = [fs EXCEPT ![a] = [@ EXCEPT !.pc = "open", !.ver = @ + 1,
                                         !.disk = [exists |-> TRUE, data |-> <<>>]]]
    /\ UNCHANGED <<pipeVars, sink, hubs, utils, thread, dbCall>>

\* encoder.Encode(segments), summaryFile.Write, the write of os.WriteFile
WriteFileData(a) ==
    /\ fs[a].pc = "open" /\ Len(fs[a].disk.data) < FilePieces
    /\ fs' = [fs EXCEPT ![a].disk.data = Append(@, fs[a].ver)]
    /\ UNCHANGED <<pipeVars, sink, hubs, utils, thread, dbCall>>

\* the writer is done with the file
CloseFile(a) ==
    /\ fs[a].pc = "open" /\ Len(fs[a].disk.data) = FilePieces
    /\ fs' = [fs EXCEPT ![a].pc = "idle"]
    /\ UNCHANGED <<pipeVars, sink, hubs, utils, thread, dbCall>>

\* A reader: os.ReadFile / os.Open and io.ReadAll, after os.Stat found the
\* file (db.json is read by NewDB of a process started meanwhile).
ReadArtifact(a) ==
    /\ fs[a].disk.exists
    /\ fs[a].seen # fs[a].disk
    /\ fs' = [fs EXCEPT ![a].seen = fs[a].disk]
    /\ UNCHANGED <<pipeVars, sink, hubs, utils, thread, dbCall>>

\* --------------------------------------------------- failure tracker calls
\* Goroutines calling db.Create and db.SetJobFailed at the same time.  A call
\* is: the critical section of db.Lock (the change of db.Data), then, when
\* something was changed, db.SaveToFile: under db.Lock.RLock the encoding of
\* db.Data into a temporary file, and the rename to db.FilePath.
MaxCallers == 2
MaxCalls == 2
DBCallers == 1..MaxCallers

EmptyDB == [v \in Videos |-> NoEntry]
NoCall == [op |-> "", v |-> "", failed |-> FALSE, msg |-> "", pc |-> "idle",
           snap |-> EmptyDB, n |-> 0]
NoCalls == [t \in DBCallers |-> NoCall]

\* The arguments SetJobFailed is called with: handleErrors and
\* UpdateJobSuccess.
FailedArgs == {<<TRUE, "cause">>, <<FALSE, "">>}

\* db.Lock.RLock is held by a SaveToFile of another caller.
ReadLocked(t) == \E u \in DBCallers \ {t} : dbCall[u].pc = "encoded"

\* a call of db.Create(v, entry)
CallCreate(t, v) ==
    /\ dbCall[t].pc = "idle" /\ dbCall[t].n < MaxCalls
    /\ dbCall' = [dbCall EXCEPT ![t] = [@ EXCEPT !.op = "Create", !.v = v, !.pc = "call",
                                                 !.n = @ + 1]]
    /\ UNCHANGED <<pipeVars, sink, hubs, utils, thread, fs>>

\* a call of db.SetJobFailed(v, failed, msg)
CallSetJobFailed(t, v, failed, msg) ==
    /\ dbCall[t].pc = "idle" /\ dbCall[t].n < MaxCalls
    /\ dbCall' = [dbCall EXCEPT ![t] = [@ EXCEPT !.op = "SetJobFailed", !.v = v,
                                                 !.failed = failed, !.msg = msg,
                                                 !.pc = "call", !.n = @ + 1]]
    /\ UNCHANGED <<pipeVars, sink, hubs, utils, thread, fs>>

\* What the critical section of the call c makes of db.Data, and whether
\* SaveToFile follows.
Mutated(d, c) == IF c.op = "Create" THEN DBCreate(d, c.v)
                 ELSE SetJobFailed(d, c.v, c.failed, c.msg)
Saves(d, c) == c.op = "Create" \/ d[c.v].exists

\* A critical section that does not wait for the readers of db.Lock.
DBCriticalSectionUnguarded(t) ==
    /\ dbCall[t].pc = "call"
    /\ db' = Mutated(db, dbCall[t])
    /\ dbCall' = [dbCall EXCEPT ![t].pc = IF Saves(db, dbCall[t]) THEN "save" ELSE "idle"]
    /\ UNCHANGED <<chans, registry, job, sent, dbFile, run, workers, disk, env, hist,
                   sink, hubs, utils, thread, fs>>

\* db.Lock.Lock(); change db.Data; db.Lock.Unlock()
DBCriticalSection(t) ==
    /\ dbCall[t].pc = "call"
    /\ ~ReadLocked(t)
    /\ db' = Mutated(db, dbCall[t])
    /\ dbCall' = [dbCall EXCEPT ![t].pc = IF Saves(db, dbCall[t]) THEN "save" ELSE "idle"]
    /\ UNCHANGED <<chans, registry, job, sent, dbFile, run, workers, disk, env, hist,
                   sink, hubs, utils, thread, fs>>

\* SaveToFile: db.Lock.RLock(); enc.Encode(db) into the temporary file
SaveEncode(t) ==
    /\ dbCall[t].pc = "save"
    /\ dbCall' = [dbCall EXCEPT ![t] = [@ EXCEPT !.pc = "encoded", !.snap = db]]
    /\ UNCHANGED <<pipeVars, sink, hubs, utils, thread, fs>>

\* SaveToFile: os.Rename(tmp.Name(), db.FilePath); db.Lock.RUnlock()
SaveRename(t) ==
    /\ dbCall[t].pc = "encoded"
    /\ dbFile' = dbCall[t].snap
    /\ dbCall' = [dbCall EXCEPT ![t] = [@ EXCEPT !.pc = "idle", !.snap = EmptyDB]]
    /\ UNCHANGED <<chans, registry, job, sent, db, run, workers, disk, env, hist,
                   sink, hubs, utils, thread, fs>>

\* -------------------------------------------------------------------- Init
DiskOf(p) ==
    [audio   |-> p \in {"audio", "audio_failed", "media"},
     scribe  |-> p \in {"media", "captions"},
     summary |-> p \in {"media", "captions"},
     info    |-> p # "none",
     vtt     |-> FALSE]

DBOf(p) ==
    IF p \in {"none", "audio"}
    THEN NoEntry
    ELSE [exists |-> TRUE, JobFailed |-> FALSE, LastError |-> ""]

InitServer ==
    /\ prior \in [Videos -> PriorRuns]
    /\ prior["B"] \in {"none", "audio"}
    /\ disk = [v \in Videos |-> DiskOf(prior[v])]
    /\ db = [v \in Videos |-> DBOf(prior[v])]
    /\ dbFile = db
    /\ videoIdIn = <<>> /\ pendingCh = <<>> /\ downloadedCh = <<>>
    /\ transcribedCh = <<>> /\ summarizedCh = <<>> /\ errCh = <<>>
    /\ Jobs = [v \in Videos |-> NoJob]
    /\ job = [j \in JobIds |-> Unallocated]
    /\ nextJob = 1
    /\ run = [j \in JobIds |-> NoRun]
    /\ intakeFwd = NoJob /\ finJob = NoJob /\ heErr = NoErr
    /\ sent = [j \in JobIds |-> <<>>]
    /\ posts = [v \in Videos |-> 0]
    /\ lastCode = NoCode
    /\ usedDownloader = [j \in JobIds |-> FALSE]
    /\ usedTranscriber = [j \in JobIds |-> FALSE]
    /\ Clients = {}
    /\ clientPc = [c \in ClientIds |-> "out"]
    /\ sink = [c \in ClientIds |-> <<>>]
    /\ Chats = NoRoom
    /\ chat = [r \in RoomIds |-> NoChat]
    /\ nextRoom = 1
    /\ ChatClients = {}
    /\ chatClient = [c \in ChatClientIds |-> [pc |-> "out", snap |-> NoSnap]]
    /\ chatSink = [c \in ChatClientIds |-> NoSink]
    /\ send = [s \in DownSends |-> NoSend]
    /\ transcript = <<>>

\* No utility function is being called.
InitIdle ==
    /\ vtt = NoVTT /\ hms = NoHMS /\ yt = NoYT /\ thread = NoThreads
    /\ fs = NoFiles /\ dbCall = NoCalls

Init == InitServer /\ InitIdle

\* ------------------------------------------------------- HTTP intake (main)
\* A handler that enqueues without looking at the capacity.
PostRejectedOverfill(v) ==
    /\ posts[v] < MaxPosts(v)
    /\ Len(videoIdIn) >= IntakeCap
    /\ videoIdIn' = Append(videoIdIn, v)
    /\ posts' = [posts EXCEPT ![v] = @ + 1]
    /\ lastCode' = StatusAccepted
    /\ UNCHANGED <<others, hubs, stageChans, errCh, registry, jobState, run, workers, disk, prior, hist>>

\* constructQueueHandler: select { case videoIdIn <- videoID: 202; default: 429 }
\* The send case is ready when the channel has room.
PostAccepted(v) ==
    /\ posts[v] < MaxPosts(v)
    /\ Len(videoIdIn) < IntakeCap
    /\ videoIdIn' = Append(videoIdIn, v)
    /\ posts' = [posts EXCEPT ![v] = @ + 1]
    /\ lastCode' = StatusAccepted
    /\ UNCHANGED <<others, hubs, stageChans, errCh, registry, jobState, run, workers, disk, prior, hist>>

\* The default case: http.Error(w, "queue full", 429).
PostRejected(v) ==
    /\ posts[v] < MaxPosts(v)
    /\ Len(videoIdIn) >= IntakeCap
    /\ lastCode' = StatusTooManyRequests
    /\ UNCHANGED <<others, hubs, chans, registry, jobState, run, workers, disk, posts, prior, hist>>

\* ------------------------------------------------------------ job registry
\* CreateJob's test with the status check left out: a failed job is kept.
CreateJobExistsNeverRevive(v) == Jobs[v] # NoJob

\* CreateJob's test with the lookup left out: every request makes a new job.
CreateJobExistsAlwaysRecreate(v) == FALSE

\* CreateJob's test treating finished like failed.
CreateJobExistsReviveFinished(v) ==
    Jobs[v] # NoJob /\ job[Jobs[v]].Status \notin {"failed", "finished"}

\* CreateJob's test keeping only a finished job.
CreateJobExistsOnlyFinished(v) == Jobs[v] # NoJob /\ job[Jobs[v]].Status = "finished"

\* CreateJob: a job exists for the id and it has not failed.
CreateJobExists(v) == Jobs[v] # NoJob /\ job[Jobs[v]].Status # "failed"

\* processNewIds, first half: take an id and call CreateJob.
IntakeCreate ==
    /\ intakeFwd = NoJob
    /\ videoIdIn # <<>>
    /\ videoIdIn' = Tail(videoIdIn)
    /\ LET v == Head(videoIdIn) IN
       IF CreateJobExists(v)
       THEN UNCHANGED <<registry, jobState, intakeFwd>>
       ELSE /\ db' = UpdateJobSuccess(db, v)
            /\ dbFile' = UpdateJobSuccess(db, v)
            /\ job' = [job EXCEPT ![nextJob] = NewSummaryJob(v)]
            /\ sent' = [sent EXCEPT ![nextJob] =
                           Append(@, [type |-> "new", data |-> NewSummaryJob(v)])]
            /\ sink' = BroadcastJobData(nextJob, NewSummaryJob(v), "new")
            /\ Jobs' = [Jobs EXCEPT ![v] = nextJob]
            /\ nextJob' = nextJob + 1
            /\ intakeFwd' = nextJob
    /\ UNCHANGED <<others, hubs, stageChans, errCh, run, finJob, heErr, disk, env, hist>>

\* CreateJob has broadcast the new job and not yet stored it in manager.Jobs.
Creating == nextJob \in JobIds /\ job[nextJob] # Unallocated

\* processNewIds calling CreateJob, up to manager.BroadcastJobData(newJob,
\* "new"): the job is made and broadcast, and not yet in manager.Jobs.
CreateJobBroadcast ==
    /\ intakeFwd = NoJob
    /\ ~Creating
    /\ videoIdIn # <<>>
    /\ videoIdIn' = Tail(videoIdIn)
    /\ LET v == Head(videoIdIn) IN
       IF CreateJobExists(v)
       THEN UNCHANGED <<registry, jobState, intakeFwd>>
       ELSE /\ db' = UpdateJobSuccess(db, v)
            /\ dbFile' = UpdateJobSuccess(db, v)
            /\ job' = [job EXCEPT ![nextJob] = NewSummaryJob(v)]
            /\ sent' = [sent EXCEPT ![nextJob] =
                           Append(@, [type |-> "new", data |-> NewSummaryJob(v)])]
            /\ sink' = BroadcastJobData(nextJob, NewSummaryJob(v), "new")
            /\ UNCHANGED <<registry, intakeFwd>>
    /\ UNCHANGED <<others, hubs, stageChans, errCh, run, finJob, heErr, disk, env, hist>>

\* CreateJob: manager.Jobs[videoID] = newJob, and the return to processNewIds.
CreateJobStore ==
    /\ Creating
    /\ Jobs' = [Jobs EXCEPT ![job[nextJob].VideoID] = nextJob]
    /\ nextJob' = nextJob + 1
    /\ intakeFwd' = nextJob
    /\ UNCHANGED <<others, hubs, chans, jobState, run, finJob, heErr, disk, env, hist>>

\* processNewIds, second half: pipe.pendingCh <- newJob (blocks while full).
IntakeForward ==
    /\ intakeFwd # NoJob
    /\ Len(pendingCh) < ChanCap
    /\ pendingCh' = Append(pendingCh, intakeFwd)
    /\ intakeFwd' = NoJob
    /\ UNCHANGED <<others, hubs, videoIdIn, downloadedCh, transcribedCh, summarizedCh, errCh,
                   registry, jobState, run, finJob, heErr, disk, env, hist>>

\* ------------------------------------------------------- stage executions
VideoOf(j) == job[j].VideoID

\* len(*entries) in TranscribeVideo and len(chunks) in SummarizeVideo: fixed by
\* the video's length; "A" is the long video, "B" fits in one chunk.
Chunks(v) == IF v = "A" THEN MaxChunks ELSE 1

Goto(j, p) == run' = [run EXCEPT ![j].pc = p]

\* panic(err) inside a stage's per-job function: the deferred recoverStage runs next.
Panic(j, e) == run' = [run EXCEPT ![j].pc = "panic", ![j].err = e]

\* A worker that starts its per-job function with "go" does not wait for it.
WorkerFreeNoWait(stage) == TRUE

\* A worker that calls its per-job function synchronously takes the next job
\* only after the call (and its deferred recoverStage) has returned.

WorkerFree(stage) == \A j \in JobIds : run[j].stage # stage

\* recoverStage without the recover(): the error is reported but the worker's
\* loop never gets control back.
RecoverStageDies(j) ==
    /\ run[j].pc = "panic"
    /\ Len(errCh) < ErrCap
    /\ errCh' = Append(errCh, [Job |-> j, Stage |-> run[j].stage, Err |-> run[j].err])
    /\ run' = [run EXCEPT ![j].pc = "dead"]
    /\ UNCHANGED <<others, hubs, videoIdIn, stageChans, registry, jobState, workers, disk, env, hist>>

\* recoverStage: recover() caught a panic; send the PipelineError on errCh
\* (blocks while errCh is full), then the per-job function returns.
RecoverStage(j) ==
    /\ run[j].pc = "panic"
    /\ Len(errCh) < ErrCap
    /\ errCh' = Append(errCh, [Job |-> j, Stage |-> run[j].stage, Err |-> run[j].err])
    /\ run' = [run EXCEPT ![j] = NoRun]
    /\ UNCHANGED <<others, hubs, videoIdIn, stageChans, registry, jobState, workers, disk, env, hist>>

\* ---------------------------------------------------------------- acquire
\* downloadNextJob: for pendingJob := range pipe.pendingCh { func(j){...}(pendingJob) }
DlTake ==
    /\ pendingCh # <<>>
    /\ WorkerFree("downloadNextJob")
    /\ pendingCh' = Tail(pendingCh)
    /\ run' = [run EXCEPT ![Head(pendingCh)] =
                  [NoRun EXCEPT !.stage = "downloadNextJob", !.pc = "dl_stat"]]
    /\ UNCHANGED <<others, hubs, videoIdIn, downloadedCh, transcribedCh, summarizedCh, errCh,
                   registry, jobState, workers, disk, env, hist>>

\* DownloadVideo: os.Stat of the audio file; when it exists return (false, nil),
\* otherwise set checking_for_captions.
DlStat(j) ==
    /\ run[j].pc = "dl_stat"
    /\ IF disk[VideoOf(j)].audio
       THEN /\ run' = [run EXCEPT ![j].pc = "dl_send", ![j].subs = FALSE]
            /\ UNCHANGED jobState
       ELSE /\ UpdateJob(j, [job[j] EXCEPT !.Status = "checking_for_captions"])
            /\ Goto(j, "dl_probe")
    /\ UNCHANGED <<others, hubs, chans, registry, workers, disk, env, hist>>

\* DownloadVideo: the yt-dlp run that writes subtitles and info.json without media.
DlProbe(j) ==
    /\ run[j].pc = "dl_probe"
    /\ usedDownloader' = [usedDownloader EXCEPT ![j] = TRUE]
    /\ \/ /\ Panic(j, "ytdlp")
          /\ UNCHANGED disk
       \/ /\ \E captions \in BOOLEAN :
                disk' = [disk EXCEPT ![VideoOf(j)].info = TRUE,
                                     ![VideoOf(j)].vtt = captions]
          /\ Goto(j, "dl_find")
    /\ UNCHANGED <<others, hubs, chans, registry, jobState, workers, env, usedTranscriber>>

\* DownloadVideo: findFirstByVideoID; an empty rawPath is returned as the error
\* "Captions should have been available" (so the audio branch that follows in the
\* source is never entered); otherwise set downloaded_captions.
DlFind(j) ==
    /\ run[j].pc = "dl_find"
    /\ \/ /\ Panic(j, "readdir")
          /\ UNCHANGED jobState
       \/ /\ ~disk[VideoOf(j)].vtt
          /\ Panic(j, "Captions should have been available")
          /\ UNCHANGED jobState
       \/ /\ disk[VideoOf(j)].vtt
          /\ UpdateJob(j, [job[j] EXCEPT !.Status = "downloaded_captions"])
          /\ Goto(j, "dl_meta")
    /\ UNCHANGED <<others, hubs, chans, registry, workers, disk, env, hist>>

\* extractVideoMeta: read info.json and set Progress.VideoMeta; its error is
\* dropped by DownloadVideo.
DlMeta(j) ==
    /\ run[j].pc = "dl_meta"
    /\ \/ UNCHANGED jobState
       \/ /\ disk[VideoOf(j)].info
          /\ UpdateJob(j, [job[j] EXCEPT !.VideoMeta = TRUE])
    /\ Goto(j, "dl_vtt")
    /\ UNCHANGED <<others, hubs, chans, registry, workers, disk, env, hist>>

\* formatVTT: parse the .vtt, write the segment list, remove the .vtt.  An
\* error comes before the segment list is created (OpenFile) or after (Encode,
\* Remove).
DlFormatVTT(j) ==
    /\ run[j].pc = "dl_vtt"
    /\ \/ /\ Panic(j, "vtt")
          /\ \E created \in {disk[VideoOf(j)].scribe, TRUE} :
                disk' = [disk EXCEPT ![VideoOf(j)].scribe = created]
       \/ /\ disk' = [disk EXCEPT ![VideoOf(j)].scribe = TRUE, ![VideoOf(j)].vtt = FALSE]
          /\ run' = [run EXCEPT ![j].pc = "dl_send", ![j].subs = TRUE]
    /\ UNCHANGED <<others, hubs, chans, registry, jobState, workers, env, hist>>

\* downloadNextJob: forward to the summarize queue when captions were used,
\* to the transcribe queue otherwise.
DlSend(j) ==
    /\ run[j].pc = "dl_send"
    /\ IF run[j].subs
       THEN /\ Len(transcribedCh) < ChanCap
            /\ transcribedCh' = Append(transcribedCh, j)
            /\ UNCHANGED downloadedCh
       ELSE /\ Len(downloadedCh) < ChanCap
            /\ downloadedCh' = Append(downloadedCh, j)
            /\ UNCHANGED transcribedCh
    /\ run' = [run EXCEPT ![j] = NoRun]
    /\ UNCHANGED <<others, hubs, videoIdIn, pendingCh, summarizedCh, errCh,
                   registry, jobState, workers, disk, env, hist>>

\* -------------------------------------------------------------- transcribe
\* transcribeNextJob: for pendingJob := range pipe.downloadedCh { func(job){...}(pendingJob) }
TrTake ==
    /\ downloadedCh # <<>>
    /\ WorkerFree("transcribeNextJob")
    /\ downloadedCh' = Tail(downloadedCh)
    /\ run' = [run EXCEPT ![Head(downloadedCh)] =
                  [NoRun EXCEPT !.stage = "transcribeNextJob", !.pc = "tr_stat"]]
    /\ UNCHANGED <<others, hubs, videoIdIn, pendingCh, transcribedCh, summarizedCh, errCh,
                   registry, jobState, workers, disk, env, hist>>

\* TranscribeVideo: os.Stat of the merged segment list; when it exists return nil,
\* otherwise set chunking.
TrStat(j) ==
    /\ run[j].pc = "tr_stat"
    /\ IF disk[VideoOf(j)].scribe
       THEN /\ Goto(j, "tr_send")
            /\ UNCHANGED jobState
       ELSE /\ UpdateJob(j, [job[j] EXCEPT !.Status = "chunking"])
            /\ Goto(j, "tr_chunk")
    /\ UNCHANGED <<others, hubs, chans, registry, workers, disk, env, hist>>

\* TranscribeVideo: chunkAudio (ffmpeg), then set transcribing and the chunk count.
TrChunk(j) ==
    /\ run[j].pc = "tr_chunk"
    /\ \/ /\ Panic(j, "ffmpeg")
          /\ UNCHANGED jobState
       \/ LET n == Chunks(VideoOf(j)) IN
            /\ UpdateJob(j, [job[j] EXCEPT !.Status = "transcribing",
                                            !.TranscriptionChunks = n])
            /\ run' = [run EXCEPT ![j].pc = "tr_loop", ![j].n = n, ![j].i = 0]
    /\ UNCHANGED <<others, hubs, chans, registry, workers, disk, env, hist>>

\* TranscribeVideo: one iteration of the loop over the chunks: transcribeFile,
\* then ChunksTranscribed = i + 1.
TrFile(j) ==
    /\ run[j].pc = "tr_loop"
    /\ run[j].i < run[j].n
    /\ usedTranscriber' = [usedTranscriber EXCEPT ![j] = TRUE]
    /\ \/ /\ Panic(j, "stt")
          /\ UNCHANGED jobState
       \/ /\ UpdateJob(j, [job[j] EXCEPT !.ChunksTranscribed = run[j].i + 1])
          /\ run' = [run EXCEPT ![j].i = @ + 1]
    /\ UNCHANGED <<others, hubs, chans, registry, workers, disk, env, usedDownloader>>

\* TranscribeVideo: write the merged segment list.  An error comes from
\* os.Create (no file) or from Encode (the file exists).
TrWrite(j) ==
    /\ run[j].pc = "tr_loop"
    /\ run[j].i = run[j].n
    /\ \/ /\ Panic(j, "write")
          /\ \E created \in BOOLEAN :
                disk' = [disk EXCEPT ![VideoOf(j)].scribe = created]
       \/ /\ disk' = [disk EXCEPT ![VideoOf(j)].scribe = TRUE]
          /\ Goto(j, "tr_send")
    /\ UNCHANGED <<others, hubs, chans, registry, jobState, workers, env, hist>>

\* transcribeNextJob: pipe.transcribedCh <- pendingJob
TrSend(j) ==
    /\ run[j].pc = "tr_send"
    /\ Len(transcribedCh) < ChanCap
    /\ transcribedCh' = Append(transcribedCh, j)
    /\ run' = [run EXCEPT ![j] = NoRun]
    /\ UNCHANGED <<others, hubs, videoIdIn, pendingCh, downloadedCh, summarizedCh, errCh,
                   registry, jobState, workers, disk, env, hist>>

\* --------------------------------------------------------------- summarize
\* summarizeNextJob calling its per-job function synchronously, as the other
\* two stage workers do.
SmSpawnSerial ==
    /\ transcribedCh # <<>>
    /\ WorkerFree("summarizeNextJob")
    /\ transcribedCh' = Tail(transcribedCh)
    /\ run' = [run EXCEPT ![Head(transcribedCh)] =
                  [NoRun EXCEPT !.stage = "summarizeNextJob", !.pc = "sm_start"]]
    /\ UNCHANGED <<others, hubs, videoIdIn, pendingCh, downloadedCh, summarizedCh, errCh,
                   registry, jobState, workers, disk, env, hist>>

\* summarizeNextJob: for pendingJob := range pipe.transcribedCh { go func(job){...}(pendingJob) }
SmSpawn ==
    /\ transcribedCh # <<>>
    /\ transcribedCh' = Tail(transcribedCh)
    /\ run' = [run EXCEPT ![Head(transcribedCh)] =
                  [NoRun EXCEPT !.stage = "summarizeNextJob", !.pc = "sm_start"]]
    /\ UNCHANGED <<others, hubs, videoIdIn, pendingCh, downloadedCh, summarizedCh, errCh,
                   registry, jobState, workers, disk, env, hist>>

\* the goroutine: job.UpdateStatus("summarizing")
SmStart(j) ==
    /\ run[j].pc = "sm_start"
    /\ UpdateJob(j, [job[j] EXCEPT !.Status = "summarizing"])
    /\ Goto(j, "sm_read")
    /\ UNCHANGED <<others, hubs, chans, registry, workers, disk, env, hist>>

\* SummarizeVideo: read the segment list, form the chunks, set SummaryChunks.
SmRead(j) ==
    /\ run[j].pc = "sm_read"
    /\ \/ /\ Panic(j, "open")
          /\ UNCHANGED jobState
       \/ /\ disk[VideoOf(j)].scribe
          /\ LET n == Chunks(VideoOf(j)) IN
               /\ UpdateJob(j, [job[j] EXCEPT !.SummaryChunks = n])
               /\ run' = [run EXCEPT ![j].pc = "sm_loop", ![j].n = n, ![j].i = 0]
    /\ UNCHANGED <<others, hubs, chans, registry, workers, disk, env, hist>>

\* The loop body recording the index of the chunk instead of the count done.
SmChunkIndex(j) ==
    /\ run[j].pc = "sm_loop"
    /\ run[j].i < run[j].n
    /\ \/ /\ Panic(j, "llm")
          /\ UNCHANGED jobState
       \/ /\ UpdateJob(j, [job[j] EXCEPT !.ChunksSummarized = run[j].i])
          /\ run' = [run EXCEPT ![j].i = @ + 1]
    /\ UNCHANGED <<others, hubs, chans, registry, workers, disk, env, hist>>

\* SummarizeVideo: one iteration of the rolling summary: extendSummary, then
\* ChunksSummarized = i + 1.
SmChunk(j) ==
    /\ run[j].pc = "sm_loop"
    /\ run[j].i < run[j].n
    /\ \/ /\ Panic(j, "llm")
          /\ UNCHANGED jobState
       \/ /\ UpdateJob(j, [job[j] EXCEPT !.ChunksSummarized = run[j].i + 1])
          /\ run' = [run EXCEPT ![j].i = @ + 1]
    /\ UNCHANGED <<others, hubs, chans, registry, workers, disk, env, hist>>

\* SummarizeVideo: write the summary Markdown.  An error comes from MkdirAll or
\* os.Create (no new file) or from Write (the file exists).
SmWrite(j) ==
    /\ run[j].pc = "sm_loop"
    /\ run[j].i = run[j].n
    /\ \/ /\ Panic(j, "write")
          /\ \E created \in {disk[VideoOf(j)].summary, TRUE} :
                disk' = [disk EXCEPT ![VideoOf(j)].summary = created]
       \/ /\ disk' = [disk EXCEPT ![VideoOf(j)].summary = TRUE]
          /\ Goto(j, "sm_send")
    /\ UNCHANGED <<others, hubs, chans, registry, jobState, workers, env, hist>>

\* the goroutine: pipe.summarizedCh <- job
SmSend(j) ==
    /\ run[j].pc = "sm_send"
    /\ Len(summarizedCh) < ChanCap
    /\ summarizedCh' = Append(summarizedCh, j)
    /\ run' = [run EXCEPT ![j] = NoRun]
    /\ UNCHANGED <<others, hubs, videoIdIn, pendingCh, downloadedCh, transcribedCh, errCh,
                   registry, jobState, workers, disk, env, hist>>

\* ---------------------------------------------------------------- finalize
\* A displayOutput that takes the job from summarizedCh and only logs it.
FinUpdateLogsOnly ==
    /\ finJob = NoJob
    /\ summarizedCh # <<>>
    /\ summarizedCh' = Tail(summarizedCh)
    /\ UNCHANGED <<others, hubs, videoIdIn, pendingCh, downloadedCh, transcribedCh, errCh,
                   registry, jobState, run, workers, disk, env, hist>>

\* displayOutput: UpdateJob(Status = "finished")
FinUpdate ==
    /\ finJob = NoJob
    /\ summarizedCh # <<>>
    /\ summarizedCh' = Tail(summarizedCh)
    /\ UpdateJob(Head(summarizedCh), [job[Head(summarizedCh)] EXCEPT !.Status = "finished"])
    /\ finJob' = Head(summarizedCh)
    /\ UNCHANGED <<others, hubs, videoIdIn, pendingCh, downloadedCh, transcribedCh, errCh,
                   registry, run, intakeFwd, heErr, disk, env, hist>>

\* displayOutput: pipe.mgr.DB.UpdateJobSuccess(j.VideoID)
FinDB ==
    /\ finJob # NoJob
    /\ db' = UpdateJobSuccess(db, VideoOf(finJob))
    /\ dbFile' = UpdateJobSuccess(db, VideoOf(finJob))
    /\ finJob' = NoJob
    /\ UNCHANGED <<others, hubs, chans, registry, job, sent, sink, run, intakeFwd, heErr, disk, env, hist>>

\* ----------------------------------------------------------- error consumer
\* handleErrors: UpdateJob(Status = "failed", Error = err)
HeUpdate ==
    /\ heErr = NoErr
    /\ errCh # <<>>
    /\ errCh' = Tail(errCh)
    /\ UpdateJob(Head(errCh).Job, [job[Head(errCh).Job] EXCEPT !.Status = "failed",
                                                            !.Error = Head(errCh).Err])
    /\ heErr' = Head(errCh)
    /\ UNCHANGED <<others, hubs, videoIdIn, stageChans, registry, run, intakeFwd, finJob, disk, env, hist>>

\* handleErrors: pipe.mgr.DB.SetJobFailed(VideoID, true, err)
HeDB ==
    /\ heErr # NoErr
    /\ db' = SetJobFailed(db, VideoOf(heErr.Job), TRUE, heErr.Err)
    /\ dbFile' = SetJobFailed(db, VideoOf(heErr.Job), TRUE, heErr.Err)
    /\ heErr' = NoErr
    /\ UNCHANGED <<others, hubs, chans, registry, job, sent, sink, run, intakeFwd, finJob, disk, env, hist>>

\* -------------------------------------------------------------- job stream
\* createNewSSEClient / CreateClient hold ClientsLock from the registration to
\* the end of the init write; DeleteClient takes it too.
ClientsLockFree == \A c \in ClientIds : clientPc[c] # "registered"

\* CreateClient: manager.Clients[id] = &Client{Connection: w}
CreateClientRegister(c) ==
    /\ clientPc[c] = "out"
    /\ ClientsLockFree
    /\ Clients' = Clients \cup {c}
    /\ clientPc' = [clientPc EXCEPT ![c] = "registered"]
    /\ UNCHANGED <<others, pipeVars, sink, chatHub>>

\* What json.Marshal(manager.Jobs) yields: every job in the map, with its fields.
JobsSnapshot == {<<Jobs[v], job[Jobs[v]]>> : v \in {w \in Videos : Jobs[w] # NoJob}}

\* CreateClient: marshal manager.Jobs and write the init event.
CreateClientInit(c) ==
    /\ clientPc[c] = "registered"
    /\ sink' = [sink EXCEPT ![c] =
                   Append(@, [type |-> "init", job |-> NoJob, data |-> Unallocated,
                              jobs |-> JobsSnapshot])]
    /\ clientPc' = [clientPc EXCEPT ![c] = "open"]
    /\ UNCHANGED <<others, pipeVars, Clients, chatHub>>

\* createNewSSEClient: the request's context is done; the deferred DeleteClient
\* removes the client from manager.Clients.  The connection is gone with the
\* handler's return.
DeleteClient(c) ==
    /\ clientPc[c] = "open"
    /\ ClientsLockFree
    /\ Clients' = Clients \ {c}
    /\ clientPc' = [clientPc EXCEPT ![c] = "closed"]
    /\ sink' = [sink EXCEPT ![c] = <<>>]
    /\ UNCHANGED <<others, pipeVars, chatHub>>

\* --------------------------------------------------------------- chat hub
\* Every action below that reads or writes mgr.Chats or mgr.Clients is one
\* critical section of mgr.mu.

\* A broadcast loop over every client that ever connected, whether or not it
\* is still in mgr.Clients.
ChatWriteEveryone(ev, first) ==
    [c \in ChatClientIds |->
        IF chatClient[c].pc \in {"registered", "open", "closed"}
        THEN Written(chatSink[c], ev, first)
        ELSE chatSink[c]]

\* The loop of broadcastUpdate and broadcastComplete: write the event to every
\* client in mgr.Clients that listens to the video.  Nothing arrives on a
\* connection whose handler has returned after a failed init write.
ChatWrite(ev, first) ==
    [c \in ChatClientIds |->
        IF c \in ChatClients /\ chatClient[c].pc # "failed"
        THEN Written(chatSink[c], ev, first)
        ELSE chatSink[c]]

\* chat.CreateClient up to mgr.mu.Unlock(): store the client, addListenerLocked
\* (create the Chat if the map has none, NumListeners++), copy the Chat.
ChatCreateClient(c) ==
    /\ chatClient[c].pc = "out"
    /\ \A d \in ChatClientIds : d < c => chatClient[d].pc # "out"
    /\ LET r == IF Chats = NoRoom THEN nextRoom ELSE Chats
           joined == [(IF Chats = NoRoom THEN NewChat ELSE chat[r])
                         EXCEPT !.NumListeners = @ + 1]
       IN /\ chat' = [chat EXCEPT ![r] = joined]
          /\ Chats' = r
          /\ nextRoom' = IF Chats = NoRoom THEN nextRoom + 1 ELSE nextRoom
          /\ chatClient' = [chatClient EXCEPT ![c] =
                               [pc |-> "registered", snap |-> [room |-> r, data |-> joined]]]
    /\ ChatClients' = ChatClients \cup {c}
    /\ UNCHANGED <<others, pipeVars, sink, jobHub, chatSink, send, transcript>>

\* chat.CreateClient after the unlock: write the init event with the copy.
ChatClientInit(c) ==
    /\ chatClient[c].pc = "registered"
    /\ chatSink' = [chatSink EXCEPT ![c] =
                       Written(@, ChatEvent("init", chatClient[c].snap, 0), FALSE)]
    /\ chatClient' = [chatClient EXCEPT ![c] = [pc |-> "open", snap |-> NoSnap]]
    /\ UNCHANGED <<others, pipeVars, sink, jobHub, Chats, chat, nextRoom, ChatClients, send, transcript>>

\* A handler that calls chat.DeleteClient when CreateClient returns an error.
ChatClientInitFailsDeletes(c) ==
    /\ chatClient[c].pc = "registered"
    /\ ChatClients' = ChatClients \ {c}
    /\ chatClient' = [chatClient EXCEPT ![c] = [pc |-> "failed", snap |-> NoSnap]]
    /\ LET n == chat[Chats].NumListeners - 1
       IN /\ chat' = [chat EXCEPT ![Chats].NumListeners = n]
          /\ Chats' = IF n = 0 THEN NoRoom ELSE Chats
    /\ UNCHANGED <<others, pipeVars, sink, jobHub, nextRoom, chatSink, send, transcript>>

\* chat.CreateClient after the unlock, when fmt.Fprint returns an error:
\* CreateClient returns the error, createChatSSEClient answers 500 and returns
\* before its defer statement, so chat.DeleteClient is never called for the
\* client.
ChatClientInitFails(c) ==
    /\ chatClient[c].pc = "registered"
    /\ chatClient' = [chatClient EXCEPT ![c] = [pc |-> "failed", snap |-> NoSnap]]
    /\ UNCHANGED <<others, pipeVars, sink, jobHub, Chats, chat, nextRoom, ChatClients,
                   chatSink, send, transcript>>

\* A chat.DeleteClient that leaves the Chat in the map when its last listener
\* goes.
ChatDeleteClientKeepsRoom(c) ==
    /\ chatClient[c].pc = "open"
    /\ ChatClients' = ChatClients \ {c}
    /\ chatClient' = [chatClient EXCEPT ![c].pc = "closed"]
    /\ IF Chats = NoRoom
       THEN UNCHANGED chat
       ELSE chat' = [chat EXCEPT ![Chats].NumListeners =
                        IF @ > 0 THEN @ - 1 ELSE @]
    /\ chatSink' = [chatSink EXCEPT ![c] = NoSink]
    /\ UNCHANGED <<others, pipeVars, sink, jobHub, Chats, nextRoom, send, transcript>>

\* createChatSSEClient: the request's context is done; the deferred
\* chat.DeleteClient removes the client, decrements NumListeners and deletes
\* the Chat from the map when no listener is left.  The connection is gone
\* with the handler's return.
ChatDeleteClient(c) ==
    /\ chatClient[c].pc = "open"
    /\ ChatClients' = ChatClients \ {c}
    /\ chatClient' = [chatClient EXCEPT ![c].pc = "closed"]
    /\ IF Chats = NoRoom
       THEN UNCHANGED <<Chats, chat>>
       ELSE LET n == IF chat[Chats].NumListeners > 0
                     THEN chat[Chats].NumListeners - 1
                     ELSE chat[Chats].NumListeners
            IN /\ chat' = [chat EXCEPT ![Chats].NumListeners = n]
               /\ Chats' = IF n = 0 THEN NoRoom ELSE Chats
    /\ chatSink' = [chatSink EXCEPT ![c] = NoSink]
    /\ UNCHANGED <<others, pipeVars, sink, jobHub, nextRoom, send, transcript>>

\* A SendMessage that creates the Chat when the map has none.
SendMessageCreatesRoom(s, m) ==
    /\ send[s].pc = "new"
    /\ \A t \in SendIds : t < s => send[t].pc # "new"
    /\ IF Chats # NoRoom /\ chat[Chats].IsBusy
       THEN /\ send' = [send EXCEPT ![s] =
                           [NoSend EXCEPT !.pc = "done", !.message = m, !.room = Chats,
                                          !.code = StatusConflict, !.err = "busy"]]
            /\ UNCHANGED <<Chats, chat, nextRoom>>
       ELSE LET r == IF Chats = NoRoom THEN nextRoom ELSE Chats
                old == IF Chats = NoRoom THEN NewChat ELSE chat[r]
            IN /\ r \in RoomIds
               /\ chat' = [chat EXCEPT ![r] =
                              [old EXCEPT !.IsBusy = TRUE, !.InProgressRequest = m,
                                          !.InProgressResponse = EmptyText, !.ver = @ + 1]]
               /\ Chats' = r
               /\ nextRoom' = IF Chats = NoRoom THEN nextRoom + 1 ELSE nextRoom
               /\ send' = [send EXCEPT ![s] =
                              [NoSend EXCEPT !.pc = "bu_snap", !.ret = "spawn", !.message = m,
                                             !.room = r, !.accepted = old.ver + 1]]
    /\ UNCHANGED <<others, pipeVars, sink, jobHub, ChatClients, chatClient, chatSink, transcript>>

\* SendMessage's critical section without the IsBusy test.
SendMessageNoTest(s, m) ==
    /\ send[s].pc = "new"
    /\ \A t \in SendIds : t < s => send[t].pc # "new"
    /\ IF Chats = NoRoom
       THEN /\ send' = [send EXCEPT ![s] = [NoSend EXCEPT !.pc = "done", !.message = m,
                                                          !.code = StatusConflict,
                                                          !.err = "not found"]]
            /\ UNCHANGED chat
       ELSE /\ chat' = [chat EXCEPT ![Chats] =
                           [@ EXCEPT !.IsBusy = TRUE, !.InProgressRequest = m,
                                     !.InProgressResponse = EmptyText, !.ver = @ + 1]]
            /\ send' = [send EXCEPT ![s] =
                           [NoSend EXCEPT !.pc = "bu_snap", !.ret = "spawn", !.message = m,
                                          !.room = Chats,
                                          !.accepted = chat[Chats].ver + 1]]
    /\ UNCHANGED <<others, pipeVars, sink, jobHub, Chats, nextRoom, ChatClients, chatClient,
                   chatSink, transcript>>

\* constructSendChatHandler calling SendMessage, up to mgr.mu.Unlock(): an error
\* (no Chat for the video, or the Chat is busy) is answered 409; otherwise set
\* IsBusy and the in-progress fields.
SendMessage(s, m) ==
    /\ send[s].pc = "new"
    /\ \A t \in SendIds : t < s => send[t].pc # "new"
    /\ IF Chats = NoRoom \/ chat[Chats].IsBusy
       THEN /\ send' = [send EXCEPT ![s] =
                           [NoSend EXCEPT !.pc = "done", !.message = m, !.room = Chats,
                                          !.code = StatusConflict,
                                          !.err = IF Chats = NoRoom THEN "not found"
                                                                    ELSE "busy"]]
            /\ UNCHANGED chat
       ELSE /\ chat' = [chat EXCEPT ![Chats] =
                           [@ EXCEPT !.IsBusy = TRUE, !.InProgressRequest = m,
                                     !.InProgressResponse = EmptyText, !.ver = @ + 1]]
            /\ send' = [send EXCEPT ![s] =
                           [NoSend EXCEPT !.pc = "bu_snap", !.ret = "spawn", !.message = m,
                                          !.room = Chats,
                                          !.accepted = chat[Chats].ver + 1]]
    /\ UNCHANGED <<others, pipeVars, sink, jobHub, Chats, nextRoom, ChatClients, chatClient,
                   chatSink, transcript>>

\* broadcastUpdate, first critical section: look the video's Chat up in the map
\* (return when there is none) and copy it.
BroadcastUpdateSnap(s) ==
    /\ send[s].pc = "bu_snap"
    /\ send' = [send EXCEPT ![s] =
                   IF Chats = NoRoom
                   THEN [@ EXCEPT !.pc = send[s].ret, !.ret = ""]
                   ELSE [@ EXCEPT !.pc = "bu_write", !.snap = SnapshotOf(Chats)]]
    /\ UNCHANGED <<others, pipeVars, sink, jobHub, Chats, chat, nextRoom, ChatClients, chatClient,
                   chatSink, transcript>>

\* broadcastUpdate, second critical section: write the update event.
BroadcastUpdateWrite(s) ==
    /\ send[s].pc = "bu_write"
    /\ chatSink' = ChatWrite(ChatEvent("update", send[s].snap, s),
                             send[s].ret = "spawn" /\ send[s].snap.room = send[s].room)
    /\ send' = [send EXCEPT ![s] = [@ EXCEPT !.pc = send[s].ret, !.ret = "", !.snap = NoSnap]]
    /\ UNCHANGED <<others, pipeVars, sink, jobHub, Chats, chat, nextRoom, ChatClients, chatClient,
                   transcript>>

\* SendMessage after its broadcastUpdate: start the worker goroutine and return
\* nil; the handler answers 202.
SendReturn(s) ==
    /\ send[s].pc = "spawn"
    /\ send' = [send EXCEPT ![s] = [@ EXCEPT !.pc = "load", !.code = StatusAccepted]]
    /\ UNCHANGED <<others, pipeVars, sink, jobHub, Chats, chat, nextRoom, ChatClients, chatClient,
                   chatSink, transcript>>

\* the worker: SendChatMessage loads the chat history of the video, the prior
\* turns of the request to the language model.
WorkerLoad(s) ==
    /\ send[s].pc = "load"
    /\ send' = [send EXCEPT ![s] = [@ EXCEPT !.pc = "call", !.prior = transcript]]
    /\ UNCHANGED <<others, pipeVars, sink, jobHub, Chats, chat, nextRoom, ChatClients, chatClient,
                   chatSink, transcript>>

\* the worker: SendChatMessage calls onProgress(token), which appends the token
\* to InProgressResponse and calls broadcastUpdate.
WorkerToken(s) ==
    /\ send[s].pc = "call"
    /\ send[s].tokens < MaxTokens
    /\ chat' = [chat EXCEPT ![send[s].room] =
                   [@ EXCEPT !.InProgressResponse = Append(@, Token), !.ver = @ + 1]]
    /\ send' = [send EXCEPT ![s] = [@ EXCEPT !.pc = "bu_snap", !.ret = "call",
                                             !.tokens = @ + 1]]
    /\ UNCHANGED <<others, pipeVars, sink, jobHub, Chats, nextRoom, ChatClients, chatClient,
                   chatSink, transcript>>

\* the worker: SendChatMessage returns nil; the deferred function runs next.
WorkerReturn(s) ==
    /\ send[s].pc = "call"
    /\ send' = [send EXCEPT ![s] = [@ EXCEPT !.pc = "complete", !.prior = <<>>]]
    /\ UNCHANGED <<others, pipeVars, sink, jobHub, Chats, chat, nextRoom, ChatClients, chatClient,
                   chatSink, transcript>>

\* the worker: SendChatMessage returns an error; InProgressResponse becomes
\* "Error: ..." and broadcastUpdate is called.
WorkerError(s) ==
    /\ send[s].pc = "call"
    /\ chat' = [chat EXCEPT ![send[s].room] =
                   [@ EXCEPT !.InProgressResponse = ErrorText, !.ver = @ + 1]]
    /\ send' = [send EXCEPT ![s] = [@ EXCEPT !.pc = "bu_snap", !.ret = "complete",
                                             !.prior = <<>>]]
    /\ UNCHANGED <<others, pipeVars, sink, jobHub, Chats, nextRoom, ChatClients, chatClient,
                   chatSink, transcript>>

\* the worker's deferred function: broadcastComplete.
BroadcastComplete(s) ==
    /\ send[s].pc = "complete"
    /\ chatSink' = ChatWrite(ChatEvent("complete", NoSnap, s), FALSE)
    /\ send' = [send EXCEPT ![s].pc = "save"]
    /\ UNCHANGED <<others, pipeVars, sink, jobHub, Chats, chat, nextRoom, ChatClients, chatClient,
                   transcript>>

\* the worker's deferred function: read the final response and, when it is not
\* empty, call saveChatHistory, which first loads the history from the file.
LoadChatHistory(s) ==
    /\ send[s].pc = "save"
    /\ LET finalResponse == chat[send[s].room].InProgressResponse IN
         send' = [send EXCEPT ![s] =
                     IF finalResponse # EmptyText
                     THEN [@ EXCEPT !.pc = "save_write", !.finalResponse = finalResponse,
                                    !.history = transcript]
                     ELSE [@ EXCEPT !.pc = "clear"]]
    /\ UNCHANGED <<others, pipeVars, sink, jobHub, Chats, chat, nextRoom, ChatClients, chatClient,
                   chatSink, transcript>>

\* A worker that saves the exchange only while its Chat is still in the map.
SaveChatHistoryIfSubscribed(s) ==
    /\ send[s].pc = "save_write"
    /\ transcript' =
           IF Chats = send[s].room
           THEN send[s].history \o Exchange(send[s].message, send[s].finalResponse)
           ELSE transcript
    /\ send' = [send EXCEPT ![s] = [@ EXCEPT !.pc = "clear", !.history = <<>>]]
    /\ UNCHANGED <<others, pipeVars, sink, jobHub, Chats, chat, nextRoom, ChatClients, chatClient,
                   chatSink>>

\* saveChatHistory: append the user message and the response to the loaded
\* history and write the file.
SaveChatHistory(s) ==
    /\ send[s].pc = "save_write"
    /\ transcript' = send[s].history \o Exchange(send[s].message, send[s].finalResponse)
    /\ send' = [send EXCEPT ![s] = [@ EXCEPT !.pc = "clear", !.history = <<>>]]
    /\ UNCHANGED <<others, pipeVars, sink, jobHub, Chats, chat, nextRoom, ChatClients, chatClient,
                   chatSink>>

\* the worker's deferred function: clear IsBusy and the in-progress fields of
\* its Chat, then broadcastUpdate.
WorkerClear(s) ==
    /\ send[s].pc = "clear"
    /\ chat' = [chat EXCEPT ![send[s].room] =
                   [@ EXCEPT !.IsBusy = FALSE, !.InProgressRequest = EmptyText,
                             !.InProgressResponse = EmptyText, !.ver = @ + 1]]
    /\ send' = [send EXCEPT ![s] = [@ EXCEPT !.pc = "bu_snap", !.ret = "done"]]
    /\ UNCHANGED <<others, pipeVars, sink, jobHub, Chats, nextRoom, ChatClients, chatClient,
                   chatSink, transcript>>

Next ==
    \/ \E v \in Videos : PostAccepted(v)
    \/ \E v \in Videos : PostRejected(v)
    \/ IntakeCreate
    \/ IntakeForward
    \/ DlTake
    \/ \E j \in JobIds : DlStat(j)
    \/ \E j \in JobIds : DlProbe(j)
    \/ \E j \in JobIds : DlFind(j)
    \/ \E j \in JobIds : DlMeta(j)
    \/ \E j \in JobIds : DlFormatVTT(j)
    \/ \E j \in JobIds : DlSend(j)
    \/ TrTake
    \/ \E j \in JobIds : TrStat(j)
    \/ \E j \in JobIds : TrChunk(j)
    \/ \E j \in JobIds : TrFile(j)
    \/ \E j \in JobIds : TrWrite(j)
    \/ \E j \in JobIds : TrSend(j)
    \/ SmSpawn
    \/ \E j \in JobIds : SmStart(j)
    \/ \E j \in JobIds : SmRead(j)
    \/ \E j \in JobIds : SmChunk(j)
    \/ \E j \in JobIds : SmWrite(j)
    \/ \E j \in JobIds : SmSend(j)
    \/ FinUpdate
    \/ FinDB
    \/ HeUpdate
    \/ HeDB
    \/ \E j \in JobIds : RecoverStage(j)

Spec == Init /\ [][Next]_vars

\* The pipeline together with the job-stream endpoint.  The requests are for
\* the videos in StreamVideos.
StreamVideos == {"A"}

NextStream ==
    \/ \E v \in StreamVideos : PostAccepted(v)
    \/ \E v \in StreamVideos : PostRejected(v)
    \/ IntakeCreate
    \/ IntakeForward
    \/ DlTake
    \/ \E j \in JobIds : DlStat(j)
    \/ \E j \in JobIds : DlProbe(j)
    \/ \E j \in JobIds : DlFind(j)
    \/ \E j \in JobIds : DlMeta(j)
    \/ \E j \in JobIds : DlFormatVTT(j)
    \/ \E j \in JobIds : DlSend(j)
    \/ TrTake
    \/ \E j \in JobIds : TrStat(j)
    \/ \E j \in JobIds : TrChunk(j)
    \/ \E j \in JobIds : TrFile(j)
    \/ \E j \in JobIds : TrWrite(j)
    \/ \E j \in JobIds : TrSend(j)
    \/ SmSpawn
    \/ \E j \in JobIds : SmStart(j)
    \/ \E j \in JobIds : SmRead(j)
    \/ \E j \in JobIds : SmChunk(j)
    \/ \E j \in JobIds : SmWrite(j)
    \/ \E j \in JobIds : SmSend(j)
    \/ FinUpdate
    \/ FinDB
    \/ HeUpdate
    \/ HeDB
    \/ \E j \in JobIds : RecoverStage(j)
    \/ \E c \in ClientIds : CreateClientRegister(c)
    \/ \E c \in ClientIds : CreateClientInit(c)
    \/ \E c \in ClientIds : DeleteClient(c)

InitStream == Init /\ prior["B"] = "none" /\ prior["A"] \in {"none", "audio"}

SpecStream == InitStream /\ [][NextStream]_vars

\* The same, with CreateJob in its two steps: a client can subscribe between
\* the broadcast of a new job and its insertion into manager.Jobs (CreateClient
\* reads manager.Jobs under ClientsLock, not under manager.Lock).
NextSubscribe ==
    \/ \E v \in StreamVideos : PostAccepted(v)
    \/ \E v \in StreamVideos : PostRejected(v)
    \/ CreateJobBroadcast
    \/ CreateJobStore
    \/ IntakeForward
    \/ DlTake
    \/ \E j \in JobIds : DlStat(j)
    \/ \E j \in JobIds : DlProbe(j)
    \/ \E j \in JobIds : DlFind(j)
    \/ \E j \in JobIds : DlMeta(j)
    \/ \E j \in JobIds : DlFormatVTT(j)
    \/ \E j \in JobIds : DlSend(j)
    \/ TrTake
    \/ \E j \in JobIds : TrStat(j)
    \/ \E j \in JobIds : TrChunk(j)
    \/ \E j \in JobIds : TrFile(j)
    \/ \E j \in JobIds : TrWrite(j)
    \/ \E j \in JobIds : TrSend(j)
    \/ SmSpawn
    \/ \E j \in JobIds : SmStart(j)
    \/ \E j \in JobIds : SmRead(j)
    \/ \E j \in JobIds : SmChunk(j)
    \/ \E j \in JobIds : SmWrite(j)
    \/ \E j \in JobIds : SmSend(j)
    \/ FinUpdate
    \/ FinDB
    \/ HeUpdate
    \/ HeDB
    \/ \E j \in JobIds : RecoverStage(j)
    \/ \E c \in ClientIds : CreateClientRegister(c)
    \/ \E c \in ClientIds : CreateClientInit(c)
    \/ \E c \in ClientIds : DeleteClient(c)

SpecSubscribe == InitStream /\ [][NextSubscribe]_vars

\* The chat endpoints: /chat/{id}/subscribe and /chat/{id}/send.
NextChat ==
    \/ \E c \in ChatClientIds : ChatCreateClient(c)
    \/ \E c \in ChatClientIds : ChatClientInit(c)
    \/ \E c \in ChatClientIds : ChatDeleteClient(c)
    \/ \E s \in SendIds : \E m \in Messages : SendMessage(s, m)
    \/ \E s \in SendIds : BroadcastUpdateSnap(s)
    \/ \E s \in SendIds : BroadcastUpdateWrite(s)
    \/ \E s \in SendIds : SendReturn(s)
    \/ \E s \in SendIds : WorkerLoad(s)
    \/ \E s \in SendIds : WorkerToken(s)
    \/ \E s \in SendIds : WorkerReturn(s)
    \/ \E s \in SendIds : WorkerError(s)
    \/ \E s \in SendIds : BroadcastComplete(s)
    \/ \E s \in SendIds : LoadChatHistory(s)
    \/ \E s \in SendIds : SaveChatHistory(s)
    \/ \E s \in SendIds : WorkerClear(s)

InitChat == Init /\ prior = [v \in Videos |-> "none"]

SpecChat == InitChat /\ [][NextChat]_vars

\* The chat endpoints while the language-model service is down: every call of
\* SendChatMessage returns an error before the first token.  Every request
\* carries a message of its own, so that the exchanges can be told apart.
DownMessage(s) == [i \in 1..(s - 1) |-> "hi"]

NextChatDown ==
    \/ \E c \in ChatClientIds : ChatCreateClient(c)
    \/ \E c \in ChatClientIds : ChatClientInit(c)
    \/ \E c \in ChatClientIds : ChatDeleteClient(c)
    \/ \E s \in DownSends : SendMessage(s, DownMessage(s))
    \/ \E s \in DownSends : BroadcastUpdateSnap(s)
    \/ \E s \in DownSends : BroadcastUpdateWrite(s)
    \/ \E s \in DownSends : SendReturn(s)
    \/ \E s \in DownSends : WorkerLoad(s)
    \/ \E s \in DownSends : WorkerError(s)
    \/ \E s \in DownSends : BroadcastComplete(s)
    \/ \E s \in DownSends : LoadChatHistory(s)
    \/ \E s \in DownSends : SaveChatHistory(s)
    \/ \E s \in DownSends : WorkerClear(s)

SpecChatDown == InitChat /\ [][NextChatDown]_vars

\* The chat endpoints with connections on which the write of the init event
\* can fail.
NextChatLeak ==
    \/ NextChat
    \/ \E c \in ChatClientIds : ChatClientInitFails(c)

SpecChatLeak == InitChat /\ [][NextChatLeak]_vars

\* The worker goroutine of a send request: every step of it from the go
\* statement to the return of its deferred function.  The language-model call
\* returns (with or without an error).
ChatWorker(s) ==
    \/ WorkerLoad(s)
    \/ WorkerToken(s)
    \/ WorkerReturn(s)
    \/ WorkerError(s)
    \/ BroadcastComplete(s)
    \/ LoadChatHistory(s)
    \/ SaveChatHistory(s)
    \/ WorkerClear(s)

\* The steps of the handler of a send request after SendMessage's critical
\* section, and broadcastUpdate wherever it is called from.
ChatSteps(s) ==
    \/ BroadcastUpdateSnap(s)
    \/ BroadcastUpdateWrite(s)
    \/ SendReturn(s)

\* The Go scheduler keeps running the handler and the worker of every send
\* request; the language-model call returns.  Clients connect, disconnect and
\* send as they like.
ChatFairness ==
    \A s \in SendIds :
        /\ WF_vars(ChatSteps(s))
        /\ WF_vars(ChatWorker(s))
        /\ WF_vars(WorkerReturn(s) \/ WorkerError(s))

\* The chat endpoints with one send request, and clients that connect and
\* disconnect as they like.
OneSend == {1}

NextChatOne ==
    \/ \E c \in ChatClientIds : ChatCreateClient(c)
    \/ \E c \in ChatClientIds : ChatClientInit(c)
    \/ \E c \in ChatClientIds : ChatDeleteClient(c)
    \/ \E s \in OneSend : \E m \in Messages : SendMessage(s, m)
    \/ \E s \in OneSend : BroadcastUpdateSnap(s)
    \/ \E s \in OneSend : BroadcastUpdateWrite(s)
    \/ \E s \in OneSend : SendReturn(s)
    \/ \E s \in OneSend : WorkerLoad(s)
    \/ \E s \in OneSend : WorkerToken(s)
    \/ \E s \in OneSend : WorkerReturn(s)
    \/ \E s \in OneSend : WorkerError(s)
    \/ \E s \in OneSend : BroadcastComplete(s)
    \/ \E s \in OneSend : LoadChatHistory(s)
    \/ \E s \in OneSend : SaveChatHistory(s)
    \/ \E s \in OneSend : WorkerClear(s)

SpecChatFair == InitChat /\ [][NextChatOne]_vars /\ ChatFairness

\* ---------------------------------------------------------------- fairness
\* Start launches one goroutine per worker, and summarizeNextJob one per job;
\* the Go scheduler keeps running every goroutine that can take a step, and
\* every external call is assumed to return.  Requests (Post*) are the
\* environment's and are not forced.
Intake == IntakeCreate \/ IntakeForward

StageTask(stage) ==
    \E j \in JobIds :
        /\ run[j].stage = stage
        /\ \/ DlStat(j) \/ DlProbe(j) \/ DlFind(j) \/ DlMeta(j) \/ DlFormatVTT(j) \/ DlSend(j)
           \/ TrStat(j) \/ TrChunk(j) \/ TrFile(j) \/ TrWrite(j) \/ TrSend(j)
           \/ SmStart(j) \/ SmRead(j) \/ SmChunk(j) \/ SmWrite(j) \/ SmSend(j)
           \/ RecoverStage(j)

Acquire == DlTake \/ StageTask("downloadNextJob")

Transcribe == TrTake \/ StageTask("transcribeNextJob")

Summarize == SmSpawn \/ StageTask("summarizeNextJob")

Finalize == FinUpdate \/ FinDB

HandleErrors == HeUpdate \/ HeDB

Fairness ==
    /\ WF_vars(Intake)
    /\ WF_vars(Acquire)
    /\ WF_vars(Transcribe)
    /\ WF_vars(Summarize)
    /\ WF_vars(Finalize)
    /\ WF_vars(HandleErrors)

\* The liveness runs start from one disk layout: "A" has its audio on disk
\* (media path), "B" has nothing (captions path).
InitFair == Init /\ prior = [v \in Videos |-> IF v = "A" THEN "audio" ELSE "none"]

SpecFair == InitFair /\ [][Next]_vars /\ Fairness
\* ======================================================================
\* Properties
\* ======================================================================
RECURSIVE Dedupe(_)
Dedupe(q) ==
    IF Len(q) <= 1 THEN q
    ELSE IF q[1] = q[2] THEN Dedupe(Tail(q))
         ELSE <<q[1]>> \o Dedupe(Tail(q))

\* The statuses a job object went through, read off the events broadcast for it.
StatusTrace(j) == Dedupe([i \in 1..Len(sent[j]) |-> sent[j][i].data.Status])

Allocated(j) == job[j].VideoID # ""

\* processNewIds took the head of videoIdIn (the only step that shortens it).
IntakeStep(v) ==
    /\ videoIdIn # <<>>
    /\ Head(videoIdIn) = v
    /\ videoIdIn' = Tail(videoIdIn)

\* The edges of the status table; a job object starts in pending.
StatusEdges ==
    {<<"", "pending">>,
     <<"pending", "checking_for_captions">>,
     <<"checking_for_captions", "downloaded_captions">>,
     <<"checking_for_captions", "downloading_audio">>,
     <<"downloading_audio", "extracting_audio">>,
     <<"extracting_audio", "chunking">>,
     <<"chunking", "transcribing">>,
     <<"transcribing", "summarizing">>,
     <<"downloaded_captions", "summarizing">>,
     <<"summarizing", "finished">>,
     <<"failed", "pending">>}
    \cup {<<s, "failed">> : s \in Statuses}

\* C1: every change of a job's status made by a worker follows an edge of the
\* status table, whatever artifacts are already on disk.
C1_StatusFollowsEdges ==
    [][\A j \in JobIds :
          job[j].Status # job'[j].Status =>
              <<job[j].Status, job'[j].Status>> \in StatusEdges]_vars

\* C2: when the error consumer has handled a stage error, the job is failed with
\* the cause as its error and the metadata store records job_failed = true and
\* last_error = the cause for the video, whether or not metadata was extracted.
C2_FailureRecorded ==
    [][(heErr # NoErr /\ heErr' = NoErr) =>
          /\ job'[heErr.Job].Status = "failed"
          /\ job'[heErr.Job].Error = heErr.Err
          /\ db'[VideoOf(heErr.Job)] =
                 [exists |-> TRUE, JobFailed |-> TRUE, LastError |-> heErr.Err]]_vars

\* C3: when the id of a failed job is taken from the intake queue, CreateJob
\* yields a new pending job with empty error, the persisted failure flag is
\* clear, exactly one "new" event is broadcast, the job is handed on for
\* forwarding, and a job enters pendingCh only by that forwarding, once.
C3_ReviveFailed ==
    [][/\ \A v \in Videos :
            (IntakeStep(v) /\ Jobs[v] # NoJob /\ job[Jobs[v]].Status = "failed") =>
                /\ Jobs'[v] # Jobs[v]
                /\ ~Allocated(Jobs'[v])
                /\ job'[Jobs'[v]] = NewSummaryJob(v)
                /\ \A j \in JobIds \ {Jobs'[v]} : job'[j] = job[j] /\ sent'[j] = sent[j]
                /\ sent'[Jobs'[v]] = <<[type |-> "new", data |-> NewSummaryJob(v)]>>
                /\ ~db'[v].JobFailed /\ db'[v].LastError = "" /\ dbFile' = db'
                /\ intakeFwd = NoJob /\ intakeFwd' = Jobs'[v]
       /\ \A j \in JobIds :
            (InSeq(pendingCh', j) /\ ~InSeq(pendingCh, j)) =>
                /\ intakeFwd = j /\ intakeFwd' = NoJob
                /\ pendingCh' = Append(pendingCh, j)
       /\ \A j \in JobIds :
            (intakeFwd' = j /\ intakeFwd # j) => ~Allocated(j)]_vars

\* A revived job (its predecessor for the same video is failed) sits in pendingCh.
C3_Witness ==
    \E j1, j2 \in JobIds :
        /\ j1 # j2 /\ Allocated(j1)
        /\ job[j1].VideoID = job[j2].VideoID
        /\ job[j1].Status = "failed"
        /\ Jobs[job[j2].VideoID] = j2
        /\ job[j2].Status = "pending" /\ job[j2].Error = ""
        /\ InSeq(pendingCh, j2)

\* C4: when the id of a job that exists and is not failed is taken from the
\* intake queue, nothing changes: no job field, no event, no store entry, no
\* queue other than the intake queue itself, and nothing is to be forwarded.
C4_ExistingJobUntouched ==
    [][\A v \in Videos :
          (IntakeStep(v) /\ Jobs[v] # NoJob /\ job[Jobs[v]].Status # "failed") =>
              UNCHANGED <<Jobs, nextJob, job, sent, db, dbFile, intakeFwd,
                          pendingCh, downloadedCh, transcribedCh, summarizedCh,
                          errCh, run, disk>>]_vars

\* Both requests for "A" went through the intake worker, yet "A" has had one job
\* object only, which has since finished.
C4_Witness ==
    /\ posts["A"] = 2 /\ videoIdIn = <<>> /\ intakeFwd = NoJob
    /\ Jobs["A"] # NoJob
    /\ \A j \in JobIds : job[j].VideoID = "A" => j = Jobs["A"]
    /\ job[Jobs["A"]].Status = "finished"

\* C5: a finished job never changes status and stays the registry's job for its
\* video; a failed job object never changes status, and the registry's status
\* for a failed video changes only by the intake worker's CreateJob, to pending.
C5_TerminalStatuses ==
    [][/\ \A j \in JobIds :
            job[j].Status \in {"finished", "failed"} => job'[j].Status = job[j].Status
       /\ \A v \in Videos :
            (Jobs[v] # NoJob /\ job[Jobs[v]].Status = "finished") => Jobs'[v] = Jobs[v]
       /\ \A v \in Videos :
            (Jobs[v] # NoJob /\ job[Jobs[v]].Status = "failed" /\ Jobs'[v] # Jobs[v]) =>
                IntakeStep(v) /\ job'[Jobs'[v]].Status = "pending"]_vars

\* One job has finished and another has failed, and the pipeline went on to
\* take a later request for the finished video and to report the failure.
C5_Witness ==
    \E j1, j2 \in JobIds :
        /\ job[j1].Status = "finished" /\ job[j2].Status = "failed"
        /\ Jobs[job[j1].VideoID] = j1
        /\ posts[job[j1].VideoID] = 2 /\ videoIdIn = <<>>
        /\ heErr = NoErr /\ errCh = <<>> /\ finJob = NoJob

FoundCaptions(j) ==
    \E i \in 1..Len(sent[j]) : sent[j][i].data.Status = "downloaded_captions"

\* C6: a job for which the caption probe found captions has had_captions = true
\* once the acquire stage is done with it, never uses the transcriber, and when
\* it finishes its status trace is pending, checking_for_captions,
\* downloaded_captions, summarizing, finished.
C6_CaptionsFastPath ==
    \A j \in JobIds :
        (FoundCaptions(j) /\ job[j].Status # "failed") =>
            /\ ~usedTranscriber[j]
            /\ ~InSeq(downloadedCh, j) /\ run[j].stage # "transcribeNextJob"
            /\ (run[j].stage # "downloadNextJob" => job[j].HadCaptions)
            /\ (job[j].Status = "finished" =>
                    StatusTrace(j) = <<"pending", "checking_for_captions",
                                       "downloaded_captions", "summarizing", "finished">>)

\* C7: when the caption probe succeeded and found no captions, the acquire
\* stage goes on to download the audio (status downloading_audio).
C7_MediaFallback ==
    [][\A j \in JobIds :
          (/\ run[j].pc = "dl_find" /\ ~disk[VideoOf(j)].vtt
           /\ run'[j].pc # "dl_find" /\ run'[j].err # "readdir") =>
              job'[j].Status = "downloading_audio"]_vars

\* C8: whatever failed before, a job waiting in the input queue of the acquire,
\* transcribe or summarize worker is eventually taken by that worker, and the
\* worker's processing of a job eventually returns (with a result or an error
\* report), so the worker is free for the next job.
InInputQueue(j) ==
    InSeq(pendingCh, j) \/ InSeq(downloadedCh, j) \/ InSeq(transcribedCh, j)

C8_WorkersSurviveFailures ==
    \A j \in JobIds :
        /\ InInputQueue(j) ~> (run[j].stage # "none")
        /\ (run[j].stage # "none") ~> (run[j].stage = "none")

\* errCh is full, the acquire worker is blocked in recoverStage with one more
\* failure, and a further request is waiting at the intake.
C8_Witness ==
    /\ Len(errCh) = ErrCap
    /\ \E j \in JobIds : run[j].pc = "panic" /\ run[j].stage = "downloadNextJob"
    /\ videoIdIn # <<>>

\* C9: a job for a video whose artifacts of a complete earlier run are on disk
\* runs neither the downloader nor the transcription service.
C9_IdempotentRerun ==
    \A j \in JobIds :
        (Allocated(j) /\ prior[VideoOf(j)] \in {"media", "captions"}) =>
            ~usedDownloader[j] /\ ~usedTranscriber[j]

\* C10: at most one job is in the acquire worker and at most one in the
\* transcribe worker at any time.
C10_OneInFlight ==
    /\ Cardinality({j \in JobIds : run[j].stage = "downloadNextJob"}) <= 1
    /\ Cardinality({j \in JobIds : run[j].stage = "transcribeNextJob"}) <= 1

\* The transcribe worker is busy with one job while another waits in its queue.
C10_Witness ==
    \E j1, j2 \in JobIds :
        /\ j1 # j2
        /\ run[j1].stage = "transcribeNextJob"
        /\ InSeq(downloadedCh, j2)

Summarizing(j) ==
    /\ run[j].stage = "summarizeNextJob"
    /\ run[j].pc \in {"sm_read", "sm_loop", "sm_send"}
    /\ job[j].Status = "summarizing"

\* C11: the summarize worker never waits for a summarization to end before it
\* takes the next job: whenever its queue holds a job it can take it, whatever
\* summarizations are running.
C11_SummarizeUnserialized ==
    transcribedCh # <<>> => ENABLED SmSpawn

\* Two jobs that both went down the captions path entered the summarize queue
\* in the order of their ids (the acquire worker handles pendingCh in FIFO
\* order, one job at a time).  Both are summarizing at once, and the later one
\* has written its summary while the earlier one still has a chunk to go.
C11_Witness ==
    \E j1, j2 \in JobIds :
        /\ j1 < j2
        /\ FoundCaptions(j1) /\ FoundCaptions(j2)
        /\ Summarizing(j1) /\ Summarizing(j2)
        /\ run[j1].pc = "sm_loop" /\ run[j1].i < run[j1].n
        /\ run[j2].pc = "sm_send"

\* The later of the two jobs is finished while the earlier one is still being
\* summarized.
C11_Overtaken ==
    \E j1, j2 \in JobIds :
        /\ j1 < j2
        /\ FoundCaptions(j1) /\ FoundCaptions(j2)
        /\ Summarizing(j1)
        /\ job[j2].Status = "finished"

CountersInRange(r) ==
    /\ 0 <= r.ChunksTranscribed /\ r.ChunksTranscribed <= r.TranscriptionChunks
    /\ 0 <= r.ChunksSummarized /\ r.ChunksSummarized <= r.SummaryChunks

\* C15: in every state of every job the done-counters lie between 0 and their
\* totals; a job's done-counters never decrease; and when the transcribe stage
\* or the summarize stage hands a job on, its done-counter equals its total.
C15_ChunkCounters ==
    /\ [](\A j \in JobIds : CountersInRange(job[j]))
    /\ [][\A j \in JobIds :
            /\ job'[j].ChunksTranscribed >= job[j].ChunksTranscribed
            /\ job'[j].ChunksSummarized >= job[j].ChunksSummarized]_vars
    /\ [](\A j \in JobIds :
            /\ run[j].pc = "tr_send" =>
                   job[j].ChunksTranscribed = job[j].TranscriptionChunks
            /\ run[j].pc = "sm_send" =>
                   job[j].ChunksSummarized = job[j].SummaryChunks)

\* A job that was transcribed and summarized in MaxChunks chunks each has
\* finished.
C15_Witness ==
    \E j \in JobIds :
        /\ job[j].Status = "finished"
        /\ job[j].TranscriptionChunks = MaxChunks
        /\ job[j].ChunksTranscribed = MaxChunks
        /\ job[j].SummaryChunks = MaxChunks
        /\ job[j].ChunksSummarized = MaxChunks

\* A POST /summarize/{id} was answered in this step.
Answered == lastCode' # lastCode \/ posts' # posts

\* C12: a POST that finds the intake queue full can always be answered at once,
\* the answer is 429 and nothing else changes (no queue, no job, no event, no
\* store entry); a POST that finds room is answered 202 and its id is appended
\* to the intake queue, with no job created or changed by the handler.
C12_IntakeOverflow ==
    /\ [](\A v \in Videos :
            (posts[v] < MaxPosts(v) /\ Len(videoIdIn) >= IntakeCap) =>
                ENABLED PostRejected(v))
    /\ [][Answered =>
            IF Len(videoIdIn) >= IntakeCap
            THEN /\ lastCode' = StatusTooManyRequests
                 /\ UNCHANGED <<chans, registry, jobState, run, workers, disk, posts>>
            ELSE /\ lastCode' = StatusAccepted
                 /\ \E v \in Videos :
                       /\ videoIdIn' = Append(videoIdIn, v)
                       /\ posts' = [posts EXCEPT ![v] = @ + 1]
                 /\ UNCHANGED <<stageChans, errCh, registry, jobState, run,
                                workers, disk>>]_vars

\* A request was just refused: the queue is full, a job is in the pipeline, and
\* the request's video has no job.
C12_Witness ==
    /\ lastCode = StatusTooManyRequests
    /\ Len(videoIdIn) = IntakeCap
    /\ \E v \in Videos : Jobs[v] # NoJob
    /\ \E v \in Videos : Jobs[v] = NoJob /\ posts[v] = 0

\* The events broadcast for the job objects 1..n of video v, oldest object first
\* (CreateJob allocates the objects of a video one after the other).
RECURSIVE VideoEventsUpTo(_, _)
VideoEventsUpTo(v, n) ==
    IF n = 0 THEN <<>>
    ELSE VideoEventsUpTo(v, n - 1) \o
         (IF job[n].VideoID = v
          THEN [i \in 1..Len(sent[n]) |-> JobEvent(n, sent[n][i].data, sent[n][i].type)]
          ELSE <<>>)

VideoEvents(v) == VideoEventsUpTo(v, PostsA + PostsB)

IsJobEventOf(e, v) == e.type # "init" /\ e.data.VideoID = v

\* The new/update events for video v on client c's connection, in write order.
SinkOf(c, v) == SelectSeq(sink[c], LAMBDA e : IsJobEventOf(e, v))

IsSegment(s, t) ==
    \E k \in 0..(Len(t) - Len(s)) : \A i \in 1..Len(s) : s[i] = t[k + i]

IsSuffix(s, t) ==
    /\ Len(s) <= Len(t)
    /\ \A i \in 1..Len(s) : s[i] = t[Len(t) - Len(s) + i]

\* C13: the new/update events for a video on a client's connection are a gapless
\* stretch of the events broadcast for it, in broadcast order (for a client
\* still registered: all of them from some point on); the events of a failed
\* job object come before those of the object that replaces it; and each
\* event written carries the job's fields as they are right after the mutation.
C13_EventOrder ==
    /\ [](\A c \in ClientIds : \A v \in Videos :
            /\ IsSegment(SinkOf(c, v), VideoEvents(v))
            /\ c \in Clients => IsSuffix(SinkOf(c, v), VideoEvents(v)))
    /\ [](\A c \in ClientIds : \A i, k \in 1..Len(sink[c]) :
            (/\ i < k
             /\ sink[c][i].type # "init" /\ sink[c][k].type # "init"
             /\ sink[c][i].data.VideoID = sink[c][k].data.VideoID) =>
                sink[c][i].job <= sink[c][k].job)
    /\ [][\A c \in ClientIds :
            (Len(sink'[c]) > Len(sink[c]) /\ sink'[c][Len(sink'[c])].type # "init") =>
                LET e == sink'[c][Len(sink'[c])] IN
                    /\ e.data = job'[e.job]
                    /\ sent'[e.job] = Append(sent[e.job], [type |-> e.type, data |-> e.data])]_vars

\* A client that is still registered has seen a job fail and its retry start:
\* the update carrying failed, then the new carrying pending, then an update
\* of the new job object.
C13_Witness ==
    \E c \in Clients : \E i \in 1..Len(sink[c]) :
        /\ i + 2 <= Len(sink[c])
        /\ sink[c][i].type = "update" /\ sink[c][i].data.Status = "failed"
        /\ sink[c][i + 1].type = "new" /\ sink[c][i + 1].data.Status = "pending"
        /\ sink[c][i + 1].job > sink[c][i].job
        /\ sink[c][i + 2].type = "update" /\ sink[c][i + 2].job = sink[c][i + 1].job

\* C14: the first event on a job-stream connection is init, so no new or update
\* event is written before it, and the init payload holds every job that is
\* in the registry when the snapshot is taken.
C14_InitFirst ==
    /\ [](\A c \in ClientIds : sink[c] # <<>> => sink[c][1].type = "init")
    /\ [][\A c \in ClientIds :
            (Len(sink'[c]) > Len(sink[c]) /\ sink'[c][Len(sink'[c])].type = "init") =>
                sink'[c][Len(sink'[c])].jobs = JobsSnapshot]_vars

\* The send request s has been accepted and its worker has not yet cleared
\* IsBusy: the response of s is in flight.
InFlight(s) ==
    /\ send[s].pc \notin {"new", "done"}
    /\ ~(send[s].pc \in {"bu_snap", "bu_write"} /\ send[s].ret = "done")

\* SendMessage's critical section is taken by the send request s in this step.
SendStep(s) == send[s].pc = "new" /\ send'[s].pc # "new"

\* C16: a send that finds its Chat busy is answered 409 and changes no Chat
\* (so neither in-progress field); a send that finds its Chat idle is accepted,
\* sets IsBusy and the in-progress fields in the same step, and is answered 202
\* when its worker starts; so of the sends on one Chat object at most one is in
\* flight at any time, and a busy Chat has exactly one.
C16_SendTestAndSet ==
    /\ [][\A s \in SendIds :
            (SendStep(s) /\ Chats # NoRoom) =>
                IF chat[Chats].IsBusy
                THEN /\ send'[s].pc = "done" /\ send'[s].code = StatusConflict
                     /\ chat' = chat
                ELSE /\ InFlight(s)' /\ send'[s].room = Chats
                     /\ chat'[Chats].IsBusy
                     /\ chat'[Chats].InProgressRequest = send'[s].message
                     /\ chat'[Chats].InProgressResponse = EmptyText]_vars
    /\ [](\A s \in SendIds :
            /\ send[s].code = StatusAccepted => send[s].pc \notin {"new", "bu_snap", "bu_write", "spawn"}
                                                 \/ send[s].ret # "spawn"
            /\ send[s].code = StatusConflict => send[s].pc = "done" /\ send[s].tokens = 0)
    /\ [](\A r \in RoomIds :
            /\ Cardinality({s \in SendIds : InFlight(s) /\ send[s].room = r}) <= 1
            /\ chat[r].IsBusy => \E s \in SendIds : InFlight(s) /\ send[s].room = r)

\* Two sends went to the same Chat object: one was accepted and its worker is
\* running, the other was answered 409; the Chat holds the accepted message.
C16_Witness ==
    \E s1, s2 \in SendIds :
        /\ s1 # s2
        /\ send[s1].room # NoRoom /\ send[s1].room = send[s2].room
        /\ send[s1].code = StatusAccepted /\ send[s1].pc = "call"
        /\ send[s2].code = StatusConflict
        /\ send[s1].message # send[s2].message
        /\ chat[send[s1].room].InProgressRequest = send[s1].message

\* C17: at most one chat response is in flight for the video at any time.
C17_OneWorkerPerVideo ==
    Cardinality({s \in SendIds : InFlight(s)}) <= 1

\* C18: for every Chat object, IsBusy is false exactly when InProgressRequest
\* and InProgressResponse are both empty.
C18_BusyIffInProgress ==
    \A r \in RoomIds :
        chat[r].VideoID # "" =>
            (~chat[r].IsBusy <=>
                (chat[r].InProgressRequest = EmptyText /\ chat[r].InProgressResponse = EmptyText))

\* C19: the video's Chat is put into the map when a client connects and the map
\* has none (no client is registered then), and it is taken out of the map
\* only when no listener is left and it is not busy.
C19_RoomLifetime ==
    [][/\ (Chats = NoRoom /\ Chats' # NoRoom) =>
            /\ ChatClients = {} /\ ChatClients' # {}
            /\ chat'[Chats'].NumListeners = 1
       /\ (Chats # NoRoom /\ Chats' = NoRoom) =>
            /\ chat'[Chats].NumListeners = 0 /\ ChatClients' = {}
            /\ ~chat[Chats].IsBusy]_vars

\* Snapshot n is not older than snapshot o: it is of a later Chat object of the
\* video, or of the same object after at least as many mutations.
NotOlder(n, o) ==
    \/ n.room > o.room
    \/ n.room = o.room /\ n.data.ver >= o.data.ver

\* On a connection that stays registered, an update is never older than the
\* update written before it.
UpdatesInOrder ==
    \A c \in ChatClientIds :
        (/\ c \in ChatClients /\ c \in ChatClients'
         /\ chatSink[c].update # NoSnap
         /\ chatSink'[c].update # chatSink[c].update) =>
            NotOlder(chatSink'[c].update, chatSink[c].update)

\* The worker of s writes complete in this step.
CompleteStep(s) == send[s].pc = "complete" /\ send'[s].pc = "save"

\* When complete is written to a connection that got the first update of the
\* request, the last update written to it carries the request's final response.
CompleteAfterFinalUpdate ==
    \A s \in SendIds : \A c \in ChatClientIds :
        (CompleteStep(s) /\ c \in ChatClients /\ s \in chatSink[c].seen) =>
            /\ chatSink[c].update.room = send[s].room
            /\ chatSink[c].update.data.IsBusy
            /\ chatSink[c].update.data.InProgressRequest = send[s].message
            /\ chatSink[c].update.data.InProgressResponse =
                   chat[send[s].room].InProgressResponse

\* C20: on a chat connection that stays registered, update events arrive in
\* the order of the Chat's mutations, and complete is written only after the
\* update carrying the final response of its request.
C20_UpdateOrder == [][UpdatesInOrder /\ CompleteAfterFinalUpdate]_vars

\* t extends q by the two entries of the exchange of send request s.
ExtendedBy(q, t, s) ==
    t = q \o Exchange(send[s].message, send[s].finalResponse)

\* The worker of s leaves the part of its deferred function that saves the
\* exchange (with or without calling saveChatHistory).
SaveStep(s) == send[s].pc \in {"save", "save_write"} /\ send'[s].pc = "clear"

\* C21: the transcript of the video changes only by a worker appending the
\* two entries {user, message}, {assistant, response} of its send, whose final
\* response is not empty; what the file held before stays, in order, in front
\* of them; a worker whose final response is empty leaves the file as it is.
C21_TranscriptAppendOnly ==
    [][/\ transcript' # transcript =>
            \E s \in SendIds :
                /\ SaveStep(s) /\ send[s].finalResponse # EmptyText
                /\ ExtendedBy(transcript, transcript', s)
       /\ \A s \in SendIds :
            SaveStep(s) =>
                IF chat[send[s].room].InProgressResponse # EmptyText
                THEN ExtendedBy(transcript, transcript', s)
                ELSE transcript' = transcript]_vars

\* The language-model call of s returned an error and the worker of s has
\* not yet cleared its Chat.
Errored(s) ==
    /\ send[s].pc \in {"bu_snap", "bu_write", "complete", "save", "save_write", "clear"}
    /\ send[s].ret # "done"
    /\ chat[send[s].room].InProgressResponse = ErrorText

\* The worker of s takes a step.
WorkerStep(s) == send'[s] # send[s]

\* The places of a worker after the error, in program order; with no
\* subscriber there is nobody to write the update to.
ErrorPathOrder(s) ==
    \/ send[s].pc = "bu_snap" /\ send'[s].pc = "bu_write"
    \/ send[s].pc = "bu_snap" /\ send'[s].pc = "complete" /\ ChatClients = {}
    \/ send[s].pc = "bu_write" /\ send'[s].pc = "complete"
    \/ send[s].pc = "complete" /\ send'[s].pc = "save"
    \/ send[s].pc = "save" /\ send'[s].pc = "save_write"
    \/ send[s].pc = "save_write" /\ send'[s].pc = "clear"
    \/ send[s].pc = "clear" /\ send'[s].pc = "bu_snap" /\ send'[s].ret = "done"

\* C22: when the language-model call of an accepted send returns an error,
\* InProgressResponse of its Chat becomes the error text; the update written
\* next to the subscribers carries that text; then complete is written, the
\* entries {user, message}, {assistant, error text} are appended to the
\* transcript, IsBusy and both in-progress fields are cleared, and a last
\* update is broadcast.
C22_ErrorPath ==
    [][\A s \in SendIds :
        /\ (send[s].pc = "call" /\ send'[s].pc = "bu_snap" /\ send'[s].ret = "complete") =>
                chat'[send[s].room].InProgressResponse = ErrorText
        /\ (Errored(s) /\ WorkerStep(s)) =>
            /\ ErrorPathOrder(s)
            /\ (send[s].pc = "bu_snap" /\ ChatClients # {}) =>
                    send'[s].snap.data.InProgressResponse = ErrorText
            /\ send[s].pc = "bu_write" =>
                    \A c \in ChatClients :
                        /\ chatSink'[c].last.type = "update"
                        /\ chatSink'[c].last.snap.data.InProgressResponse = ErrorText
            /\ send[s].pc = "complete" =>
                    \A c \in ChatClients : chatSink'[c].last.type = "complete"
            /\ send[s].pc = "save_write" =>
                    transcript' = transcript \o Exchange(send[s].message, ErrorText)
            /\ send[s].pc = "clear" =>
                    /\ ~chat'[send[s].room].IsBusy
                    /\ chat'[send[s].room].InProgressRequest = EmptyText
                    /\ chat'[send[s].room].InProgressResponse = EmptyText]_vars

\* The worker of s has just been started.
Started(s) == send[s].pc = "load"

\* The worker of s has just left the saving part of its deferred function:
\* when its final response is not empty the transcript ends with its exchange.
Saved(s) ==
    /\ send[s].pc = "clear"
    /\ send[s].finalResponse # EmptyText =>
            IsSuffix(Exchange(send[s].message, send[s].finalResponse), transcript)

\* The worker of s has just cleared its Chat object.
Cleared(s) ==
    /\ send[s].pc \in {"bu_snap", "bu_write", "done"} /\ send[s].ret \in {"done", ""}
    /\ send[s].code = StatusAccepted
    /\ ~chat[send[s].room].IsBusy

\* C23: once the worker of an accepted send is started it runs to its end
\* whatever the subscribers do: it gets past the saving of the exchange (a
\* response that is not empty is appended to the transcript), it clears IsBusy
\* of its Chat object, and it returns.
C23_WorkerCompletes ==
    \A s \in SendIds :
        /\ Started(s) ~> Saved(s)
        /\ Started(s) ~> Cleared(s)
        /\ Started(s) ~> (send[s].pc = "done")

\* Every subscriber left while the response was streaming (the map has no
\* Chat any more), and the worker, still running, has appended its exchange.
C23_Witness ==
    \E s \in SendIds :
        /\ send[s].pc = "clear" /\ send[s].tokens > 0
        /\ ChatClients = {} /\ Chats = NoRoom
        /\ chat[send[s].room].IsBusy
        /\ transcript = Exchange(send[s].message, send[s].finalResponse)

\* C24: a send that finds no Chat for the video in the map is answered 409
\* with the error "not found"; the step creates no Chat, starts no worker,
\* writes no event and leaves the transcript alone, and the request never
\* does anything afterwards.
C24_NoRoomRejected ==
    /\ [][\A s \in SendIds :
            (SendStep(s) /\ Chats = NoRoom) =>
                /\ send'[s].pc = "done" /\ send'[s].code = StatusConflict
                /\ send'[s].err = "not found"
                /\ UNCHANGED <<Chats, chat, nextRoom, ChatClients, chatClient, chatSink,
                               transcript>>
                /\ \A t \in SendIds \ {s} : send'[t] = send[t]]_vars
    /\ [](\A s \in SendIds :
            send[s].err = "not found" =>
                /\ send[s].pc = "done" /\ send[s].code = StatusConflict
                /\ send[s].room = NoRoom /\ send[s].tokens = 0)

\* A send was rejected for want of a Chat after the only subscriber had left,
\* and the video still has no Chat.
C24_Witness ==
    \E s \in SendIds : \E c \in ChatClientIds :
        /\ send[s].err = "not found" /\ send[s].pc = "done"
        /\ chatClient[c].pc = "closed"
        /\ Chats = NoRoom /\ ChatClients = {}

\* The worker of t has cleared its Chat after an exchange with a response
\* that was not empty.
Completed(t) ==
    /\ send[t].code = StatusAccepted /\ send[t].finalResponse # EmptyText
    /\ \/ send[t].pc = "done"
       \/ send[t].pc \in {"bu_snap", "bu_write"} /\ send[t].ret = "done"

\* The list q holds the two entries e next to each other.
HasExchange(q, e) == \E i \in 1..Len(q) : i < Len(q) /\ <<q[i], q[i + 1]>> = e

\* The steps of the worker's deferred function, in program order, with what
\* each does.
TerminationOrder ==
    \A s \in DownSends :
        /\ (send[s].pc = "complete" /\ WorkerStep(s)) =>
                /\ send'[s].pc = "save"
                /\ \A c \in ChatClients : chatSink'[c].last = ChatEvent("complete", NoSnap, s)
                /\ UNCHANGED <<chat, transcript>>
        /\ (send[s].pc = "save" /\ WorkerStep(s)) =>
                /\ send'[s].pc = IF chat[send[s].room].InProgressResponse # EmptyText
                                 THEN "save_write" ELSE "clear"
                /\ UNCHANGED <<chat, transcript, chatSink>>
        /\ (send[s].pc = "save_write" /\ WorkerStep(s)) =>
                /\ send'[s].pc = "clear"
                /\ IsSuffix(Exchange(send[s].message, chat[send[s].room].InProgressResponse),
                            transcript')
                /\ chat[send[s].room].IsBusy
                /\ UNCHANGED <<chat, chatSink>>
        /\ (send[s].pc = "clear" /\ WorkerStep(s)) =>
                /\ send'[s].pc = "bu_snap" /\ send'[s].ret = "done"
                /\ chat'[send[s].room] =
                       [chat[send[s].room] EXCEPT !.IsBusy = FALSE,
                                                 !.InProgressRequest = EmptyText,
                                                 !.InProgressResponse = EmptyText,
                                                 !.ver = @ + 1]
                /\ UNCHANGED <<transcript, chatSink>>
        /\ (send[s].pc \in {"bu_snap", "bu_write"} /\ send[s].ret = "done" /\ WorkerStep(s)) =>
                /\ send'[s].pc = "done" \/ (send[s].pc = "bu_snap" /\ send'[s].pc = "bu_write")
                /\ UNCHANGED <<chat, transcript>>
                /\ send'[s].pc = "done" =>
                       \A c \in ChatClients :
                           IF send[s].pc = "bu_write"
                           THEN chatSink'[c].last = ChatEvent("update", send[s].snap, s)
                           ELSE chatSink'[c] = chatSink[c]
        /\ send[s].pc = "done" => send'[s] = send[s]

\* A send accepted on a Chat after a worker cleared it loads, as its prior
\* turns, a history that holds that worker's exchange.
PriorTurnsLoaded ==
    \A s \in DownSends :
        (send[s].pc = "load" /\ send'[s].pc = "call") =>
            \A t \in DownSends \ {s} :
                (Completed(t) /\ send[t].room = send[s].room) =>
                    HasExchange(send'[s].prior,
                                Exchange(send[t].message, send[t].finalResponse))

\* C30: when a chat response ends the worker broadcasts complete, then appends
\* the exchange to the transcript if the response is not empty, then clears
\* IsBusy and both in-progress fields, then broadcasts one last update; and a
\* send accepted after the clearing finds that exchange in the transcript it
\* loads as prior turns.
C30_TerminationOrder == [][TerminationOrder /\ PriorTurnsLoaded]_vars

\* ----------------------------------------------------- utility functions
InitUtil(v, h, y) ==
    /\ InitServer /\ prior = [x \in Videos |-> "none"]
    /\ vtt = v /\ hms = h /\ yt = y /\ thread = NoThreads
    /\ fs = NoFiles /\ dbCall = NoCalls

\* formatVTT on every list of subtitle items within the bounds.
InitVTT ==
    \E items \in VTTInputs :
        InitUtil([NoVTT EXCEPT !.pc = "loop", !.Items = items, !.i = 1], NoHMS, NoYT)

NextVTT == FormatVTTItem \/ FormatVTTEncode

SpecVTT == InitVTT /\ [][NextVTT]_vars

\* fmtHMS on every number of seconds within the bounds.
InitHMS ==
    \E t \in 0..MaxSecs :
        InitUtil(NoVTT, [NoHMS EXCEPT !.pc = "call", !.timeSecs = t], NoYT)

NextHMS == FmtHMS

SpecHMS == InitHMS /\ [][NextHMS]_vars

\* The previous kept segment and the new text overlap in k runes, and in no
\* more.
IsOverlap(prev, txt, k) ==
    /\ k <= Len(prev) /\ k <= Len(txt)
    /\ SubSeq(prev, Len(prev) - k + 1, Len(prev)) = SubSeq(txt, 1, k)
    /\ \A l \in (k + 1)..Min(Len(prev), Len(txt)) :
           SubSeq(prev, Len(prev) - l + 1, Len(prev)) # SubSeq(txt, 1, l)

\* C25: when formatVTT keeps a new segment and the list is not empty, with k
\* the largest overlap of the previous segment's text and the new text: if k
\* is the previous segment's length the previous segment is removed from the
\* list, otherwise its text loses its last k runes; then the new segment is
\* appended.
C25_Deduplication ==
    [][(vtt'.i = vtt.i + 1 /\ vtt'.segments # vtt.segments /\ Len(vtt.segments) > 0) =>
        LET seg == vtt.Items[vtt.i]
            n == Len(vtt.segments)
            prev == vtt.segments[n].Text
        IN \E k \in 0..Len(prev) :
              /\ IsOverlap(prev, seg.Text, k)
              /\ vtt'.segments =
                    IF k = Len(prev)
                    THEN Append(SubSeq(vtt.segments, 1, n - 1), seg)
                    ELSE Append([vtt.segments EXCEPT ![n].Text = SubSeq(prev, 1, Len(prev) - k)],
                                seg)]_vars

\* C26: fmtHMS prints hours, minutes and seconds for every t >= 3600 and
\* minutes and seconds for every t < 3600, with HH = t div 3600,
\* MM = (t div 60) mod 60 and SS = t mod 60.
C26_HoursFromOneHour ==
    hms.pc = "done" =>
        LET t == hms.timeSecs IN
        hms.out = IF t >= 3600
                  THEN <<t \div 3600, (t \div 60) % 60, t % 60>>
                  ELSE <<(t \div 60) % 60, t % 60>>

\* The URL utilities on every URL of YtURLs.
InitYT ==
    \E u \in YtURLs :
        InitUtil(NoVTT, NoHMS, [NoYT EXCEPT !.pc = "new", !.input = u, !.url = u])

NextYT == YtCheck \/ YtNormalize

SpecYT == InitYT /\ [][NextYT]_vars

\* The url holds, after its scheme and host, an id of 11 characters of
\* A-Z a-z 0-9 _ - in one of the places the utilities know.
UrlHoldsId(url, v) ==
    /\ Len(v) = 11 /\ \A i \in 1..11 : v[i] \in IdChars
    /\ \E n \in 1..(Len(url) - 10) : SubSeq(url, n, n + 10) = v

\* C27: isValidYouTubeURL is true exactly when extractVideoId gives an id;
\* an id it gives has exactly 11 characters of A-Z a-z 0-9 _ - (and is part of
\* the url); normalizeYouTubeURL gives the url back unchanged when there is
\* no id and otherwise the watch URL of the id; normalizing the result again
\* changes nothing.
C27_UrlUtilities ==
    /\ [](yt.pc \in {"checked", "normalized"} =>
            /\ yt.valid <=> yt.id.found
            /\ yt.id.found => UrlHoldsId(yt.input, yt.id.id) /\ IsValidVideoId(yt.id.id))
    /\ [][yt'.rounds = yt.rounds + 1 =>
            /\ yt.rounds = 0 =>
                    yt'.url = IF yt.id.found
                              THEN <<"h", "t", "t", "p", "s", ":", "/", "/", "w", "w", "w", ".", "y", "o", "u", "t", "u", "b", "e", ".", "c", "o", "m", "/", "w", "a", "t", "c", "h", "?", "v", "=">> \o yt.id.id
                              ELSE yt.input
            /\ yt.rounds > 0 => yt'.url = yt.url]_vars

\* A shorts URL with a blank in front and a query behind was found valid and
\* normalized twice: it is the watch URL of its id.
C27_Witness ==
    /\ yt.pc = "normalized" /\ yt.rounds = 2
    /\ yt.valid /\ yt.id.found
    /\ Len(yt.input) > 0 /\ yt.input[1] = " "
    /\ \E n \in 1..(Len(yt.input) - 7) : SubSeq(yt.input, n, n + 7) = <<"/", "s", "h", "o", "r", "t", "s", "/">>
    /\ yt.url # yt.input
    /\ yt.url = WatchURL(yt.id.id)

\* -------------------------------------------------------- lock discipline
NextLocks ==
    \/ \E t \in ThreadIds : \E op \in OperationNames : Call(t, op)
    \/ \E t \in ThreadIds : Execute(t)
    \/ \E t \in ThreadIds : Return(t)

InitLocks == Init /\ prior = [v \in Videos |-> "none"]

SpecLocks == InitLocks /\ [][NextLocks]_vars

\* C28 as stated: a goroutine that holds a job's mutex (for the pair of
\* mutation and broadcast) holds no other lock.
C28_NoNestedLocks ==
    \A t \in ThreadIds : "job.Lock" \in WriteHeld(t) => Held(t) = {"job.Lock"}

\* C28 amended: a goroutine that holds a job's mutex holds no registry-wide
\* lock; the only other lock it takes is the failure tracker's, and it has
\* released it when it releases the job's mutex.
C28_NoRegistryLockUnderJobLock ==
    \A t \in ThreadIds :
        "job.Lock" \in WriteHeld(t) =>
            /\ Held(t) \cap RegistryLocks = {}
            /\ Held(t) \subseteq {"job.Lock", "db.Lock"}
            /\ (Running(t) /\ NextEvent(t) = Unlock("job.Lock")[1]) => Held(t) = {"job.Lock"}

\* A goroutine holds a job's mutex and, inside db.Create, the failure
\* tracker's lock, while another goroutine waits for the job's mutex.
C28_Witness ==
    \E t, u \in ThreadIds :
        /\ t # u
        /\ thread[t].op = "UpdateJobCreate"
        /\ WriteHeld(t) = {"job.Lock", "db.Lock"}
        /\ thread[u].op = "UpdateJob" /\ thread[u].i = 0

\* The goroutine t executes an event of the given kinds in this step.
Executes(t, kinds) ==
    /\ Running(t) /\ thread'[t] = [thread[t] EXCEPT !.i = @ + 1]
    /\ NextEvent(t).kind \in kinds

\* C29: no goroutine writes to a subscriber connection or writes a file
\* while it holds a registry-wide lock (the job registry's lock, the job
\* subscribers' lock, the chat manager's lock).
C29_NoIOUnderRegistryLock ==
    [][\A t \in ThreadIds :
          Executes(t, {"WriteSink", "WriteFile"}) => Held(t) \cap RegistryLocks = {}]_vars

\* ---------------------------------------------------- chat registry
\* C37: whenever the map holds a Chat for the video, its NumListeners is at
\* least 1 and equals the number of clients in mgr.Clients (all of them listen
\* to the video); whenever mgr.Clients holds a client, the map holds a Chat.
C37_ListenerCount ==
    /\ Chats # NoRoom =>
           /\ chat[Chats].NumListeners >= 1
           /\ chat[Chats].NumListeners = Cardinality(ChatClients)
    /\ ChatClients # {} => Chats # NoRoom

\* Two clients are registered with the Chat, one of them through a failed
\* init write.
C37_Witness ==
    /\ Chats # NoRoom
    /\ Cardinality(ChatClients) = 2
    /\ \E c \in ChatClients : chatClient[c].pc = "failed"
    /\ chat[Chats].NumListeners = 2

\* C38: once chat.DeleteClient has returned for a client, no broadcast writes
\* an update or a complete event to its connection.
C38_NoWriteAfterDelete ==
    [][\A c \in ChatClientIds :
          chatClient[c].pc = "closed" => chatSink'[c] = chatSink[c]]_vars

\* A client has disconnected, another one is still registered, and the
\* broadcast of a worker is about to write to the registered clients.
C38_Witness ==
    \E c, d \in ChatClientIds : \E s \in SendIds :
        /\ chatClient[c].pc = "closed"
        /\ chatClient[d].pc = "open"
        /\ send[s].pc \in {"bu_write", "complete"}

Announced(c, j) ==
    \E i \in 1..Len(sink[c]) :
        \/ sink[c][i].type = "init" /\ \E p \in sink[c][i].jobs : p[1] = j
        \/ sink[c][i].type = "new" /\ sink[c][i].job = j

\* C36: a client whose subscription is complete has been told, in its init
\* event or in a new event, of every job manager.Jobs holds (new is broadcast
\* before the job is stored, so none is still to come for a stored job).
C36_NoJobMissed ==
    \A c \in ClientIds : \A v \in Videos :
        (clientPc[c] = "open" /\ Jobs[v] # NoJob) => Announced(c, Jobs[v])

\* ---------------------------------------------------------- artifact files
NextFiles ==
    \/ \E a \in Artifacts : CreateTemp(a)
    \/ \E a \in Artifacts : WriteTemp(a)
    \/ \E a \in Artifacts : Rename(a)
    \/ \E a \in Artifacts : CreateFile(a)
    \/ \E a \in Artifacts : WriteFileData(a)
    \/ \E a \in Artifacts : CloseFile(a)
    \/ \E a \in Artifacts : ReadArtifact(a)

SpecFiles == InitChat /\ [][NextFiles]_vars

\* The content is all of one write.
Complete(c) == \E n \in 1..MaxWrites : c = ContentOf(n)

\* C31: whatever a reader gets from an artifact file is the complete content
\* of one write, never an empty or partial file.
C31_AtomicReplace ==
    \A a \in Artifacts : fs[a].seen # NotRead => Complete(fs[a].seen)

\* --------------------------------------------------- failure tracker calls
NextDB ==
    \/ \E t \in DBCallers : \E v \in Videos : CallCreate(t, v)
    \/ \E t \in DBCallers : \E v \in Videos : \E a \in FailedArgs :
          CallSetJobFailed(t, v, a[1], a[2])
    \/ \E t \in DBCallers : DBCriticalSection(t)
    \/ \E t \in DBCallers : SaveEncode(t)
    \/ \E t \in DBCallers : SaveRename(t)

SpecDB == Init /\ [][NextDB]_vars

\* The caller t runs the critical section of a SetJobFailed in this step.
SetsFailed(t) ==
    /\ dbCall[t].pc = "call" /\ dbCall[t].op = "SetJobFailed"
    /\ dbCall'[t].pc # "call"

\* C32: whenever no call of db.Create or db.SetJobFailed is in progress,
\* db.json holds db.Data; SetJobFailed for a video without an entry changes
\* neither db.Data nor db.json (and saves nothing); SetJobFailed for a video
\* with an entry changes JobFailed and LastError of that entry and nothing
\* else.
C32_TrackerConsistent ==
    /\ []((\A t \in DBCallers : dbCall[t].pc = "idle") => dbFile = db)
    /\ [][\A t \in DBCallers : SetsFailed(t) =>
             IF db[dbCall[t].v].exists
             THEN /\ db' = [db EXCEPT ![dbCall[t].v].JobFailed = dbCall[t].failed,
                                      ![dbCall[t].v].LastError = dbCall[t].msg]
                  /\ dbCall'[t].pc = "save"
             ELSE /\ db' = db /\ dbFile' = dbFile
                  /\ dbCall'[t].pc = "idle"]_vars

\* Every call has returned, after two callers' saves overlapped: one had
\* encoded db.Data while the other waited to change it; the entry of video A
\* is marked failed in db.Data and in db.json.
C32_Witness ==
    /\ \A t \in DBCallers : dbCall[t].pc = "idle" /\ dbCall[t].n = MaxCalls
    /\ db["A"].exists /\ db["A"].JobFailed
    /\ ~db["B"].exists
    /\ dbFile = db

\* ------------------------------------------------------ persisted flag
\* An error report (handleErrors between its UpdateJob and its SetJobFailed)
\* or a finalization (displayOutput between its UpdateJob and its
\* UpdateJobSuccess) is in progress for the video, or an error of one of its
\* jobs waits on errCh.
Reporting(v) ==
    \/ heErr # NoErr /\ VideoOf(heErr.Job) = v
    \/ finJob # NoJob /\ VideoOf(finJob) = v
    \/ \E i \in 1..Len(errCh) : VideoOf(errCh[i].Job) = v

\* C33: whenever no error report and no finalization is in progress for a
\* video (CreateJob, the retry, is one step), a JobFailed flag that is true in
\* the store means that the registry's job for the video has failed.
C33_FlagAgreesWithJob ==
    \A v \in Videos :
        (~Reporting(v) /\ Jobs[v] # NoJob /\ db[v].exists /\ db[v].JobFailed) =>
            job[Jobs[v]].Status = "failed"

\* ------------------------------------------------------ one job per video
\* The job object is inside the pipeline: handed over by CreateJob and on its
\* way to the first queue, in a stage queue, or being processed by a stage
\* (the finalization included).
InPipeline(j) ==
    \/ intakeFwd = j
    \/ InSeq(pendingCh, j) \/ InSeq(downloadedCh, j)
    \/ InSeq(transcribedCh, j) \/ InSeq(summarizedCh, j)
    \/ run[j].stage # "none"
    \/ finJob = j

\* The job object was replaced in manager.Jobs by a retry.
Superseded(j) == job[j] # Unallocated /\ j < nextJob /\ Jobs[job[j].VideoID] # j

\* C34: at most one job object of a video is inside the pipeline at any time,
\* so no two stage executions work on one video at once; and a job object
\* that a retry has replaced is never changed again.
C34_OneJobPerVideo ==
    /\ [](\A j1, j2 \in JobIds :
            (/\ j1 # j2
             /\ job[j1] # Unallocated /\ job[j2] # Unallocated
             /\ job[j1].VideoID = job[j2].VideoID) => ~(InPipeline(j1) /\ InPipeline(j2)))
    /\ [][\A j \in JobIds : Superseded(j) => job'[j] = job[j]]_vars

\* The first job of video A has failed and was replaced by a retry, which is
\* being processed by a stage while the failure of the first is still being
\* recorded.
C34_Witness ==
    \E j1, j2 \in JobIds :
        /\ j1 # j2
        /\ job[j1].VideoID = "A" /\ job[j2].VideoID = "A"
        /\ job[j1].Status = "failed" /\ Superseded(j1)
        /\ run[j2].stage # "none"
        /\ heErr # NoErr /\ heErr.Job = j1

\* ------------------------------------------------------------ termination
Terminal(j) == job[j].Status \in {"finished", "failed"}

\* C35: every video id accepted into videoIdIn eventually has a job that is
\* finished or failed, and every job object CreateJob made eventually is
\* finished or failed: no queue and no errCh blocks the workers for ever.
C35_JobsTerminate ==
    /\ \A v \in Videos :
          InSeq(videoIdIn, v) ~> (Jobs[v] # NoJob /\ Terminal(Jobs[v]))
    /\ \A j \in JobIds :
          (job[j] # Unallocated) ~> Terminal(j)

\* Every request was accepted and every queue is empty again: one job has
\* failed, its retry has finished, and no worker holds a job.
C35_Witness ==
    /\ \A v \in Videos : posts[v] = MaxPosts(v)
    /\ videoIdIn = <<>> /\ pendingCh = <<>> /\ downloadedCh = <<>>
    /\ transcribedCh = <<>> /\ summarizedCh = <<>> /\ errCh = <<>>
    /\ \A j \in JobIds : run[j].stage = "none" /\ (job[j] # Unallocated => Terminal(j))
    /\ \E j1, j2 \in JobIds :
          /\ job[j1].Status = "failed" /\ job[j2].Status = "finished"
          /\ job[j1].VideoID = job[j2].VideoID
====
